---- MODULE Spec2Model ----
(***************************************************************************)
(* Per-agent screening decision engine of the cervical cancer ABM          *)
(* (model/screening.py): diagnostic test models, the eligibility and       *)
(* compliance gate, and the screening protocols.                           *)
(*                                                                         *)
(* Probabilities (sensitivity, specificity, the uniform draw) are scaled   *)
(* to small integers; only the comparisons the code makes (<, >) matter.   *)
(* Ages are counted in simulation steps; model.age is the cohort's age, a  *)
(* single number shared by all agents (screening.py:291-292, 311).         *)
(***************************************************************************)
EXTENDS Integers, Sequences, FiniteSets, TLC

\* ------------------------------------------------------------ enumerations

ScreeningTestResult == {"NEGATIVE", "POSITIVE", "CANCER"}

ScreeningState == {"ROUTINE", "RE_TEST", "SURVEILLANCE"}

\* A status value outside the ScreeningState enumeration (the value the
\* triage rules call COLPOSCOPY); the gate does not recognise it.
UnknownState == "COLPOSCOPY"

AnyState == ScreeningState \cup {UnknownState}

HpvState == {"NORMAL", "HPV", "CIN_1", "CIN_2_3", "CANCER"}

HpvStrain == {"LOW_RISK", "HIGH_RISK", "SIXTEEN", "EIGHTEEN"}

CancerState == {"NORMAL", "LOCAL", "REGIONAL", "DISTANT", "DEAD"}

CancerDetectionState == {"UNDETECTED", "DETECTED"}

CervicalLesionState == {"NORMAL", "ASCUS", "LSIL", "ASCH", "HSIL"}

\* A value that is no cervical lesion state.
UnexpectedLesionState == "UNEXPECTED"

\* ------------------------------------------------------------ bounds

\* The cohort's age runs from initial_age to MaxAge.
MaxAge == 4

\* apply is called while the event log holds fewer than MaxEvents records.
MaxEvents == 2

\* A test model is called on its own while fewer than MaxTests draws are taken.
MaxTests == 1

\* The values of the uniform draw, in quarters: 0, 1/4, 1/2, 3/4.
Draws == {0, 1, 2, 3}

Agents == {1, 2}

\* ------------------------------------------------------------ parameters

initial_age == 1

age_routine_start == 2

age_routine_end == 5

interval_routine == 3

interval_re_test == 2

interval_surveillance == 1

interval_hiv == 2

via_sensitivity == 1

via_specificity == 2

dna_sensitivity == 1

dna_specificity == 2

cytology_sensitivity == 1

cytology_specificity == 2

cotest_sensitivity == 1

cotest_specificity == 2

\* The ages the co-test applies to.
cotest_age_min == 30

cotest_age_max == 65

cancer_inspection_sensitivity == 1

cancer_inspection_specificity == 2

via_cost == 5

dna_cost == 7

cancer_inspection_cost == 9

\* ------------------------------------------------------------ state

VARIABLES
    protocol,                     \* the configured protocol (a key of protocols)
    age, time,                    \* model.age, model.time
    hpv_strains,                  \* model.hpv_strains[strain].values[id]
    max_hpv_state,                \* model.max_hpv_state.values[id]
    cancer,                       \* model.cancer.values[id]
    cervical_lesion,              \* model.cervical_lesion.values[id]
    cancer_detection,             \* model.cancer_detection.values[id]
    hiv_detected,                 \* model.hiv_detected (a set of ids)
    living,                       \* model.life.living
    compliant_routine_state,      \* model.compliant_routine_state.values[id]
    compliant_surveillance_state, \* model.compliant_surveillance_state.values[id]
    screening_state,              \* model.screening_state.values[id]
    last_screen_age,              \* model.dicts.last_screen_age (a dict)
    events,                       \* model.events (the event log)
    calls,                        \* the treat_cin / detect_cancer calls made
    ndraws,                       \* draws taken from model.rng so far
    screening_tests,              \* the test objects the protocol was built with
    last                          \* what the most recent call did

hidden == <<hpv_strains, max_hpv_state, cancer, cervical_lesion, hiv_detected,
            living, compliant_routine_state, compliant_surveillance_state,
            screening_tests>>

vars == <<protocol, age, time, hidden, cancer_detection, screening_state,
          last_screen_age, events, calls, ndraws, last>>

\* ------------------------------------------------------------ test models

\* A test model's outcome: the result, whether it raised ValueError instead,
\* and how many draws it took from the random source.
Returned(result, used) == [result |-> result, raised |-> FALSE, used |-> used]

Raised(used) == [result |-> "ValueError", raised |-> TRUE, used |-> used]

\* A result that is no member of ScreeningTestResult.
UnexpectedResult == "UNEXPECTED"

\* A test object that is not one of the test models: it returns what it was
\* scripted to return, here the value the next draw stands for.
ScriptedTest_get_result(draw) ==
    Returned(<<"NEGATIVE", "POSITIVE", "CANCER", UnexpectedResult>>[draw + 1], 1)

\* Mutant of ViaScreeningTest_get_result: CIN_2_3 goes through the
\* specificity gate.
ViaScreeningTest_get_result_cin_2_3_specific(true_hpv_state, true_cancer_state, draw) ==
    IF true_cancer_state = "DEAD" THEN Raised(0)
    ELSE IF true_hpv_state = "CANCER" /\ true_cancer_state = "NORMAL" THEN Raised(0)
    ELSE IF true_hpv_state \in {"NORMAL", "HPV", "CIN_1", "CIN_2_3"} THEN
        IF draw > via_specificity THEN Returned("POSITIVE", 1)
        ELSE Returned("NEGATIVE", 1)
    ELSE IF true_cancer_state = "LOCAL" THEN
        IF draw < via_sensitivity THEN Returned("CANCER", 1)
        ELSE Returned("NEGATIVE", 1)
    ELSE Returned("CANCER", 0)

\* Mutant of ViaScreeningTest_get_result: the contradiction of CANCER with a
\* NORMAL cancer state is not rejected.
ViaScreeningTest_get_result_no_contradiction_check(true_hpv_state, true_cancer_state, draw) ==
    IF true_cancer_state = "DEAD" THEN Raised(0)
    ELSE IF true_hpv_state \in {"NORMAL", "HPV", "CIN_1"} THEN
        IF draw > via_specificity THEN Returned("POSITIVE", 1)
        ELSE Returned("NEGATIVE", 1)
    ELSE IF true_hpv_state = "CIN_2_3" THEN
        IF draw < via_sensitivity THEN Returned("POSITIVE", 1)
        ELSE Returned("NEGATIVE", 1)
    ELSE IF true_cancer_state = "LOCAL" THEN
        IF draw < via_sensitivity THEN Returned("CANCER", 1)
        ELSE Returned("NEGATIVE", 1)
    ELSE Returned("CANCER", 0)

ViaScreeningTest_get_result(true_hpv_state, true_cancer_state, draw) ==
    IF true_cancer_state = "DEAD" THEN Raised(0)
    ELSE IF true_hpv_state = "CANCER" /\ true_cancer_state = "NORMAL" THEN Raised(0)
    ELSE IF true_hpv_state \in {"NORMAL", "HPV", "CIN_1"} THEN
        IF draw > via_specificity THEN Returned("POSITIVE", 1)
        ELSE Returned("NEGATIVE", 1)
    ELSE IF true_hpv_state = "CIN_2_3" THEN
        IF draw < via_sensitivity THEN Returned("POSITIVE", 1)
        ELSE Returned("NEGATIVE", 1)
    ELSE IF true_cancer_state = "LOCAL" THEN
        IF draw < via_sensitivity THEN Returned("CANCER", 1)
        ELSE Returned("NEGATIVE", 1)
    ELSE Returned("CANCER", 0)

detectable == {"SIXTEEN", "EIGHTEEN", "HIGH_RISK"}

AllNegative == [strain \in HpvStrain |-> "NEGATIVE"]

\* Mutant of DnaScreeningTest_get_result: LOW_RISK counts as a strain the
\* agent has.
DnaScreeningTest_get_result_low_risk_counts(true_hpv_states, draw) ==
    LET no_strain == \A strain \in HpvStrain : true_hpv_states[strain] = "NORMAL"
        false_positive == no_strain /\ draw > dna_specificity
        overall_result ==
            IF no_strain
            THEN IF draw > dna_specificity THEN "POSITIVE" ELSE "NEGATIVE"
            ELSE IF draw < dna_sensitivity THEN "POSITIVE" ELSE "NEGATIVE"
        result == [strain \in HpvStrain |->
                     IF strain \in detectable /\ true_hpv_states[strain] # "NORMAL"
                     THEN "POSITIVE"
                     ELSE IF strain = "HIGH_RISK" /\ false_positive
                     THEN "POSITIVE"
                     ELSE "NEGATIVE"]
    IN  IF overall_result = "NEGATIVE" THEN Returned(AllNegative, 1)
        ELSE Returned(result, 1)

\* Mutant of DnaScreeningTest_get_result: HIGH_RISK is POSITIVE whenever the
\* overall result is.
DnaScreeningTest_get_result_high_risk_forced(true_hpv_states, draw) ==
    LET no_strain == \A strain \in detectable : true_hpv_states[strain] = "NORMAL"
        overall_result ==
            IF no_strain
            THEN IF draw > dna_specificity THEN "POSITIVE" ELSE "NEGATIVE"
            ELSE IF draw < dna_sensitivity THEN "POSITIVE" ELSE "NEGATIVE"
        result == [strain \in HpvStrain |->
                     IF strain \in detectable /\ true_hpv_states[strain] # "NORMAL"
                     THEN "POSITIVE"
                     ELSE IF strain = "HIGH_RISK"
                     THEN "POSITIVE"
                     ELSE "NEGATIVE"]
    IN  IF overall_result = "NEGATIVE" THEN Returned(AllNegative, 1)
        ELSE Returned(result, 1)

\* Mutant of DnaScreeningTest_get_result: a positive result reports LOW_RISK
\* like the other strains.
DnaScreeningTest_get_result_reports_low_risk(true_hpv_states, draw) ==
    LET no_strain == \A strain \in detectable : true_hpv_states[strain] = "NORMAL"
        false_positive == no_strain /\ draw > dna_specificity
        overall_result ==
            IF no_strain
            THEN IF draw > dna_specificity THEN "POSITIVE" ELSE "NEGATIVE"
            ELSE IF draw < dna_sensitivity THEN "POSITIVE" ELSE "NEGATIVE"
        result == [strain \in HpvStrain |->
                     IF true_hpv_states[strain] # "NORMAL"
                     THEN "POSITIVE"
                     ELSE IF strain = "HIGH_RISK" /\ false_positive
                     THEN "POSITIVE"
                     ELSE "NEGATIVE"]
    IN  IF overall_result = "NEGATIVE" THEN Returned(AllNegative, 1)
        ELSE Returned(result, 1)

\* Mutant of DnaScreeningTest_get_result: a positive result takes a second
\* draw.
DnaScreeningTest_get_result_draws_twice(true_hpv_states, draw) ==
    LET no_strain == \A strain \in detectable : true_hpv_states[strain] = "NORMAL"
        false_positive == no_strain /\ draw > dna_specificity
        overall_result ==
            IF no_strain
            THEN IF draw > dna_specificity THEN "POSITIVE" ELSE "NEGATIVE"
            ELSE IF draw < dna_sensitivity THEN "POSITIVE" ELSE "NEGATIVE"
        result == [strain \in HpvStrain |->
                     IF strain \in detectable /\ true_hpv_states[strain] # "NORMAL"
                     THEN "POSITIVE"
                     ELSE IF strain = "HIGH_RISK" /\ false_positive
                     THEN "POSITIVE"
                     ELSE "NEGATIVE"]
    IN  IF overall_result = "NEGATIVE" THEN Returned(AllNegative, 1)
        ELSE Returned(result, 2)

DnaScreeningTest_get_result(true_hpv_states, draw) ==
    LET no_strain == \A strain \in detectable : true_hpv_states[strain] = "NORMAL"
        false_positive == no_strain /\ draw > dna_specificity
        overall_result ==
            IF no_strain
            THEN IF draw > dna_specificity THEN "POSITIVE" ELSE "NEGATIVE"
            ELSE IF draw < dna_sensitivity THEN "POSITIVE" ELSE "NEGATIVE"
        result == [strain \in HpvStrain |->
                     IF strain \in detectable /\ true_hpv_states[strain] # "NORMAL"
                     THEN "POSITIVE"
                     ELSE IF strain = "HIGH_RISK" /\ false_positive
                     THEN "POSITIVE"
                     ELSE "NEGATIVE"]
    IN  IF overall_result = "NEGATIVE" THEN Returned(AllNegative, 1)
        ELSE Returned(result, 1)

\* Mutant of CytologyScreeningTest_get_result: a value that is no lesion
\* state is read as a lesion.
CytologyScreeningTest_get_result_accepts_any(true_cervical_lesion_state, draw) ==
    IF true_cervical_lesion_state = "NORMAL" THEN
        IF draw > cytology_specificity THEN Returned("POSITIVE", 1)
        ELSE Returned("NEGATIVE", 1)
    ELSE
        IF draw < cytology_sensitivity THEN Returned("POSITIVE", 1)
        ELSE Returned("NEGATIVE", 1)

CytologyScreeningTest_get_result(true_cervical_lesion_state, draw) ==
    IF true_cervical_lesion_state = "NORMAL" THEN
        IF draw > cytology_specificity THEN Returned("POSITIVE", 1)
        ELSE Returned("NEGATIVE", 1)
    ELSE IF true_cervical_lesion_state \in {"ASCUS", "LSIL", "ASCH", "HSIL"} THEN
        IF draw < cytology_sensitivity THEN Returned("POSITIVE", 1)
        ELSE Returned("NEGATIVE", 1)
    ELSE Raised(0)

\* Mutant of CancerInspectionScreeningTest_get_result: LOCAL cancer is
\* detectable.
CancerInspectionScreeningTest_get_result_local_detectable(true_cancer_state, draw) ==
    IF true_cancer_state = "DEAD" THEN Raised(0)
    ELSE IF true_cancer_state = "NORMAL" THEN
        IF draw > cancer_inspection_specificity THEN Returned("CANCER", 1)
        ELSE Returned("NEGATIVE", 1)
    ELSE
        IF draw < cancer_inspection_sensitivity THEN Returned("CANCER", 1)
        ELSE Returned("NEGATIVE", 1)

CancerInspectionScreeningTest_get_result(true_cancer_state, draw) ==
    IF true_cancer_state = "DEAD" THEN Raised(0)
    ELSE IF true_cancer_state \in {"NORMAL", "LOCAL"} THEN
        IF draw > cancer_inspection_specificity THEN Returned("CANCER", 1)
        ELSE Returned("NEGATIVE", 1)
    ELSE
        IF draw < cancer_inspection_sensitivity THEN Returned("CANCER", 1)
        ELSE Returned("NEGATIVE", 1)

\* An outcome that is the named exception.
RaisedWith(error, used) == [result |-> error, raised |-> TRUE, used |-> used]

\* x[key] in Python: a number has no items.
Subscript(x, key) ==
    IF x \in Int THEN [raised |-> TRUE, value |-> x]
    ELSE [raised |-> FALSE, value |-> x[key]]

\* DnaScreeningTest.get_result called with something in place of the
\* per-strain states: its first statement after the list reads
\* true_hpv_states[strain].
DnaScreeningTest_get_result_of(true_hpv_states, draw) ==
    IF Subscript(true_hpv_states, "SIXTEEN").raised THEN RaisedWith("TypeError", 0)
    ELSE DnaScreeningTest_get_result(true_hpv_states, draw)

\* CoTestScreeningTest.get_result(unique_id). model.age is the cohort's age,
\* a number; the cytology and the DNA test are called with the id where they
\* expect true states. lesion_read is what the cytology test's comparisons
\* make of the id: a lesion state whose value is that number, or none.
CoTestScreeningTest_get_result(unique_id, lesion_read, ds) ==
    LET model_age == Subscript(age, unique_id)
        cytology_result == CytologyScreeningTest_get_result(lesion_read, ds[1])
        hpv_result == DnaScreeningTest_get_result_of(unique_id, ds[2])
        true_positive ==
            \/ cytology_result.result = "POSITIVE"
            \/ \E strain \in HpvStrain : hpv_result.result[strain] = "POSITIVE"
        cotest_result ==
            IF true_positive
            THEN IF ds[3] < cotest_sensitivity THEN "POSITIVE" ELSE "NEGATIVE"
            ELSE IF ds[3] < cotest_specificity THEN "NEGATIVE" ELSE "POSITIVE"
    IN  IF model_age.raised THEN RaisedWith("TypeError", 0)
        ELSE IF model_age.value < cotest_age_min \/ model_age.value > cotest_age_max
        THEN Raised(0)
        ELSE IF cytology_result.raised THEN Raised(cytology_result.used)
        ELSE IF hpv_result.raised
        THEN RaisedWith(hpv_result.result, cytology_result.used + hpv_result.used)
        ELSE Returned([cotest    |-> cotest_result,
                       cytology  |-> cytology_result.result,
                       hpv       |-> hpv_result.result,
                       hpv_16_18 |-> \E strain \in {"SIXTEEN", "EIGHTEEN"} :
                                        hpv_result.result[strain] = "POSITIVE",
                       hr_hpv    |-> hpv_result.result["HIGH_RISK"] = "POSITIVE",
                       lr_hpv    |-> hpv_result.result["LOW_RISK"] = "POSITIVE"],
                      cytology_result.used + hpv_result.used + 1)

\* ------------------------------------------------------------ triage

\* ScreeningState.<name>: the member of that name, or AttributeError.
ScreeningState_member(name) ==
    IF name \in ScreeningState
    THEN [raised |-> FALSE, error |-> "none", value |-> name]
    ELSE [raised |-> TRUE, error |-> "AttributeError", value |-> "none"]

\* ScreeningStrategy.triage_cytology_results(unique_id, result)
triage_cytology_results(unique_id, result) ==
    LET cytology_state == cervical_lesion[unique_id]
    IN  IF result = "NEGATIVE" THEN ScreeningState_member("ROUTINE")
        ELSE IF cytology_state = "ASCUS" THEN ScreeningState_member("RE_TEST")
        ELSE IF cytology_state \in {"LSIL", "ASCH", "HSIL"}
        THEN ScreeningState_member("COLPOSCOPY")
        ELSE ScreeningState_member("RE_TEST")

\* ScreeningStrategy.triage_dna_results(unique_id, result)
triage_dna_results(unique_id, result) ==
    IF \A strain \in DOMAIN result : result[strain] = "NEGATIVE"
    THEN ScreeningState_member("ROUTINE")
    ELSE IF result["SIXTEEN"] = "POSITIVE" \/ result["EIGHTEEN"] = "POSITIVE"
    THEN ScreeningState_member("COLPOSCOPY")
    ELSE ScreeningState_member("RE_TEST")

\* ScreeningStrategy.triage_cotest_results(unique_id, results)
triage_cotest_results(unique_id, results) ==
    LET cotest_result == results.cotest
        cytology_result == results.cytology
        hr_hpv_result == results.hr_hpv
        hpv_16_18_result == results.hpv_16_18
        cytology_state == cervical_lesion[unique_id]
    IN  IF cotest_result = "NEGATIVE" THEN ScreeningState_member("ROUTINE")
        ELSE IF hr_hpv_result /\ cytology_result = "NEGATIVE" THEN
            IF hpv_16_18_result THEN ScreeningState_member("COLPOSCOPY")
            ELSE ScreeningState_member("RE_TEST")
        ELSE IF hr_hpv_result /\ cytology_result = "POSITIVE"
        THEN ScreeningState_member("COLPOSCOPY")
        ELSE IF ~hr_hpv_result /\ cytology_result = "POSITIVE" THEN
            IF cytology_state \in {"ASCH", "LSIL", "HSIL"}
            THEN ScreeningState_member("COLPOSCOPY")
            ELSE IF cytology_state = "ASCUS" THEN ScreeningState_member("RE_TEST")
            ELSE ScreeningState_member("RE_TEST")
        ELSE ScreeningState_member("RE_TEST")

\* The methods of ScreeningStrategy.
ScreeningStrategy_methods ==
    {"perform_screening", "triage_results", "triage_cytology_results",
     "triage_dna_results", "triage_cotest_results"}

\* ScreeningStrategy.triage_results(unique_id, results). The dictionary
\* results is a record of its keys and of the values under them; a method
\* the class does not have is an AttributeError.
triage_results(unique_id, results) ==
    IF "cotest" \in results.keys
    THEN triage_cotest_results(unique_id, results)
    ELSE IF "cytology" \in results.keys
    THEN triage_cytology_results(unique_id, results.cytology)
    ELSE IF "hpv" \in results.keys
    THEN IF "triage_hpv_results" \in ScreeningStrategy_methods
         THEN triage_dna_results(unique_id, results.hpv)
         ELSE [raised |-> TRUE, error |-> "AttributeError", value |-> "none"]
    ELSE [raised |-> TRUE, error |-> "ValueError", value |-> "none"]

\* ------------------------------------------------------------ the model object

\* The part of the model object a protocol reads and writes during one call
\* of apply, with the bookkeeping of the call: pos counts the draws taken in
\* this call, err is the exception that ended it, tests lists the tests run
\* for the agent being visited, writes the assignments made to
\* screening_state, visits what each pass of the loop did.
Model ==
    [screening_state  |-> screening_state,
     last_screen_age  |-> last_screen_age,
     cancer_detection |-> cancer_detection,
     events           |-> events,
     calls            |-> calls,
     pos              |-> 0,
     err              |-> "none",
     tests            |-> <<>>,
     writes           |-> <<>>,
     visits           |-> <<>>]

\* dict[key] = value
DictPut(d, key, value) ==
    [k \in DOMAIN d \cup {key} |-> IF k = key THEN value ELSE d[k]]

\* Mutant of record_event: the new record replaces the log.
record_event_overwrites(m, event) == [m EXCEPT !.events = <<event>>]

record_event(m, event) == [m EXCEPT !.events = Append(@, event)]

\* The clinical-action callbacks of the simulation core.
treat_cin(m, unique_id) ==
    [m EXCEPT !.calls = Append(@, <<"treat_cin", unique_id>>)]

detect_cancer(m, unique_id) ==
    [m EXCEPT !.calls = Append(@, <<"detect_cancer", unique_id>>),
              !.cancer_detection[unique_id] = "DETECTED"]

\* Mutant of SetState: the status is written to the whole array.
SetState_whole_array(m, unique_id, state) ==
    [m EXCEPT !.screening_state = [a \in DOMAIN @ |-> state],
              !.writes = Append(@, <<unique_id, state>>)]

SetState(m, unique_id, state) ==
    [m EXCEPT !.screening_state[unique_id] = state,
              !.writes = Append(@, <<unique_id, state>>)]

Raise(m, error) == [m EXCEPT !.err = error]

\* A test has run: its draws are consumed and it is noted for the visit.
Ran(m, test, t) ==
    [m EXCEPT !.pos = @ + t.used,
              !.tests = Append(@, [test |-> test, result |-> t.result])]

\* Mutant of NextDraw: the draw after the next one is returned.
NextDraw_looks_ahead(m, ds) == ds[IF m.pos + 2 <= Len(ds) THEN m.pos + 2 ELSE m.pos + 1]

\* The draw the next call of rng.random() returns.
NextDraw(m, ds) == ds[m.pos + 1]

get_via_result(m, unique_id, ds) ==
    IF screening_tests = "scripted" THEN ScriptedTest_get_result(NextDraw(m, ds))
    ELSE ViaScreeningTest_get_result(max_hpv_state[unique_id], cancer[unique_id],
                                     NextDraw(m, ds))

get_dna_result(m, unique_id, ds) ==
    DnaScreeningTest_get_result([strain \in HpvStrain |-> hpv_strains[unique_id][strain]],
                                NextDraw(m, ds))

get_cancer_inspection_result(m, unique_id, ds) ==
    IF screening_tests = "scripted" THEN ScriptedTest_get_result(NextDraw(m, ds))
    ELSE CancerInspectionScreeningTest_get_result(cancer[unique_id], NextDraw(m, ds))

\* ------------------------------------------------------------ the gate

Min(a, b) == IF a < b THEN a ELSE b

\* What is_due_for_screening does: it returns a boolean or raises
\* NotImplementedError.
DueReturn(value) == [raised |-> FALSE, value |-> value]

DueRaise == [raised |-> TRUE, value |-> FALSE]

\* Mutant of is_due_for_screening: the check of cancer_detection is missing.
is_due_without_detection_check(m, unique_id) ==
    LET state == m.screening_state[unique_id]
        t1 == age < age_routine_start
        t2 == age > age_routine_end
        interval0 == CASE state = "ROUTINE" -> interval_routine
                       [] state = "RE_TEST" -> interval_re_test
                       [] state = "SURVEILLANCE" -> interval_surveillance
        interval == IF unique_id \in hiv_detected
                    THEN Min(interval0, interval_hiv) ELSE interval0
    IN  IF state = "ROUTINE" /\ (t1 \/ t2) THEN DueReturn(FALSE)
        ELSE IF state \notin {"ROUTINE", "RE_TEST", "SURVEILLANCE"} THEN DueRaise
        ELSE IF unique_id \notin DOMAIN m.last_screen_age THEN DueReturn(TRUE)
        ELSE IF age - m.last_screen_age[unique_id] >= interval THEN DueReturn(TRUE)
        ELSE DueReturn(FALSE)

\* Mutant of is_due_for_screening: the HIV interval replaces the interval of
\* the status even when it is longer.
is_due_hiv_interval_replaces(m, unique_id) ==
    LET state == m.screening_state[unique_id]
        t1 == age < age_routine_start
        t2 == age > age_routine_end
        interval0 == CASE state = "ROUTINE" -> interval_routine
                       [] state = "RE_TEST" -> interval_re_test
                       [] state = "SURVEILLANCE" -> interval_surveillance
        interval == IF unique_id \in hiv_detected THEN interval_hiv ELSE interval0
    IN  IF m.cancer_detection[unique_id] = "DETECTED" THEN DueReturn(FALSE)
        ELSE IF state = "ROUTINE" /\ (t1 \/ t2) THEN DueReturn(FALSE)
        ELSE IF state \notin {"ROUTINE", "RE_TEST", "SURVEILLANCE"} THEN DueRaise
        ELSE IF unique_id \notin DOMAIN m.last_screen_age THEN DueReturn(TRUE)
        ELSE IF age - m.last_screen_age[unique_id] >= interval THEN DueReturn(TRUE)
        ELSE DueReturn(FALSE)

\* Mutant of is_due_for_screening: the bounds of the age window are excluded.
is_due_window_excludes_bounds(m, unique_id) ==
    LET state == m.screening_state[unique_id]
        t1 == age <= age_routine_start
        t2 == age >= age_routine_end
        interval0 == CASE state = "ROUTINE" -> interval_routine
                       [] state = "RE_TEST" -> interval_re_test
                       [] state = "SURVEILLANCE" -> interval_surveillance
        interval == IF unique_id \in hiv_detected
                    THEN Min(interval0, interval_hiv) ELSE interval0
    IN  IF m.cancer_detection[unique_id] = "DETECTED" THEN DueReturn(FALSE)
        ELSE IF state = "ROUTINE" /\ (t1 \/ t2) THEN DueReturn(FALSE)
        ELSE IF state \notin {"ROUTINE", "RE_TEST", "SURVEILLANCE"} THEN DueRaise
        ELSE IF unique_id \notin DOMAIN m.last_screen_age THEN DueReturn(TRUE)
        ELSE IF age - m.last_screen_age[unique_id] >= interval THEN DueReturn(TRUE)
        ELSE DueReturn(FALSE)

\* Mutant of is_due_for_screening: a status that is none of the three gets
\* the routine interval.
is_due_unknown_status_routine(m, unique_id) ==
    LET state == m.screening_state[unique_id]
        t1 == age < age_routine_start
        t2 == age > age_routine_end
        interval0 == CASE state = "RE_TEST" -> interval_re_test
                       [] state = "SURVEILLANCE" -> interval_surveillance
                       [] OTHER -> interval_routine
        interval == IF unique_id \in hiv_detected
                    THEN Min(interval0, interval_hiv) ELSE interval0
    IN  IF m.cancer_detection[unique_id] = "DETECTED" THEN DueReturn(FALSE)
        ELSE IF state = "ROUTINE" /\ (t1 \/ t2) THEN DueReturn(FALSE)
        ELSE IF unique_id \notin DOMAIN m.last_screen_age THEN DueReturn(TRUE)
        ELSE IF age - m.last_screen_age[unique_id] >= interval THEN DueReturn(TRUE)
        ELSE DueReturn(FALSE)

\* Mutant of is_due_for_screening: the age of the last screening is not
\* looked at.
is_due_ignores_last_screen_age(m, unique_id) ==
    LET state == m.screening_state[unique_id]
        t1 == age < age_routine_start
        t2 == age > age_routine_end
    IN  IF m.cancer_detection[unique_id] = "DETECTED" THEN DueReturn(FALSE)
        ELSE IF state = "ROUTINE" /\ (t1 \/ t2) THEN DueReturn(FALSE)
        ELSE IF state \notin {"ROUTINE", "RE_TEST", "SURVEILLANCE"} THEN DueRaise
        ELSE DueReturn(TRUE)

is_due_for_screening(m, unique_id) ==
    LET state == m.screening_state[unique_id]
        t1 == age < age_routine_start
        t2 == age > age_routine_end
        interval0 == CASE state = "ROUTINE" -> interval_routine
                       [] state = "RE_TEST" -> interval_re_test
                       [] state = "SURVEILLANCE" -> interval_surveillance
        interval == IF unique_id \in hiv_detected
                    THEN Min(interval0, interval_hiv) ELSE interval0
    IN  IF m.cancer_detection[unique_id] = "DETECTED" THEN DueReturn(FALSE)
        ELSE IF state = "ROUTINE" /\ (t1 \/ t2) THEN DueReturn(FALSE)
        ELSE IF state \notin {"ROUTINE", "RE_TEST", "SURVEILLANCE"} THEN DueRaise
        ELSE IF unique_id \notin DOMAIN m.last_screen_age THEN DueReturn(TRUE)
        ELSE IF age - m.last_screen_age[unique_id] >= interval THEN DueReturn(TRUE)
        ELSE DueReturn(FALSE)

\* Mutant of is_compliant_with_screening: SURVEILLANCE reads the routine flag.
is_compliant_reads_routine_flag(m, unique_id) ==
    IF m.screening_state[unique_id] = "ROUTINE"
    THEN compliant_routine_state[unique_id]
    ELSE IF m.screening_state[unique_id] = "SURVEILLANCE"
    THEN compliant_routine_state[unique_id]
    ELSE TRUE

is_compliant_with_screening(m, unique_id) ==
    IF m.screening_state[unique_id] = "ROUTINE"
    THEN compliant_routine_state[unique_id]
    ELSE IF m.screening_state[unique_id] = "SURVEILLANCE"
    THEN compliant_surveillance_state[unique_id]
    ELSE TRUE

\* ------------------------------------------------------------ the protocols

\* Mutant of ViaScreeningProtocol_branch: a POSITIVE result treats the agent
\* but sends her to RE_TEST.
ViaScreeningProtocol_branch_positive_retest(m, unique_id, t) ==
    IF t.raised THEN Raise(m, "ValueError")
    ELSE IF t.result = "NEGATIVE" THEN SetState(m, unique_id, "ROUTINE")
    ELSE IF t.result = "POSITIVE"
    THEN SetState(treat_cin(m, unique_id), unique_id, "RE_TEST")
    ELSE IF t.result = "CANCER"
    THEN SetState(detect_cancer(m, unique_id), unique_id, "SURVEILLANCE")
    ELSE Raise(m, "NotImplementedError")

\* ViaScreeningProtocol.apply: the branch on the VIA result.
ViaScreeningProtocol_branch(m, unique_id, t) ==
    IF t.raised THEN Raise(m, "ValueError")
    ELSE IF t.result = "NEGATIVE" THEN SetState(m, unique_id, "ROUTINE")
    ELSE IF t.result = "POSITIVE"
    THEN SetState(treat_cin(m, unique_id), unique_id, "SURVEILLANCE")
    ELSE IF t.result = "CANCER"
    THEN SetState(detect_cancer(m, unique_id), unique_id, "SURVEILLANCE")
    ELSE Raise(m, "NotImplementedError")

\* Mutant of ViaScreeningProtocol_visit: the compliance check is missing.
ViaScreeningProtocol_visit_ignores_compliance(m, unique_id, ds) ==
    LET due == is_due_for_screening(m, unique_id)
        m1 == [m EXCEPT !.last_screen_age = DictPut(@, unique_id, age)]
        event == IF m1.screening_state[unique_id] = "SURVEILLANCE"
                 THEN "SURVEILLANCE_VIA" ELSE "SCREENING_VIA"
        m2 == record_event(m1, <<time, unique_id, event, via_cost>>)
        t == get_via_result(m2, unique_id, ds)
    IN  IF due.raised THEN Raise(m, "NotImplementedError")
        ELSE IF ~due.value THEN m
        ELSE ViaScreeningProtocol_branch(Ran(m2, "via", t), unique_id, t)

\* Mutant of ViaScreeningProtocol_visit: the test is run before the age and
\* the event are written.
ViaScreeningProtocol_visit_test_first(m, unique_id, ds) ==
    LET due == is_due_for_screening(m, unique_id)
        m1 == [m EXCEPT !.last_screen_age = DictPut(@, unique_id, age)]
        event == IF m1.screening_state[unique_id] = "SURVEILLANCE"
                 THEN "SURVEILLANCE_VIA" ELSE "SCREENING_VIA"
        m2 == record_event(m1, <<time, unique_id, event, via_cost>>)
        t == get_via_result(m, unique_id, ds)
    IN  IF due.raised THEN Raise(m, "NotImplementedError")
        ELSE IF ~due.value THEN m
        ELSE IF ~is_compliant_with_screening(m, unique_id) THEN m
        ELSE IF t.raised THEN Raise(Ran(m, "via", t), "ValueError")
        ELSE ViaScreeningProtocol_branch(Ran(m2, "via", t), unique_id, t)

\* ViaScreeningProtocol.apply: the body of the loop, for one agent.
ViaScreeningProtocol_visit(m, unique_id, ds) ==
    LET due == is_due_for_screening(m, unique_id)
        m1 == [m EXCEPT !.last_screen_age = DictPut(@, unique_id, age)]
        event == IF m1.screening_state[unique_id] = "SURVEILLANCE"
                 THEN "SURVEILLANCE_VIA" ELSE "SCREENING_VIA"
        m2 == record_event(m1, <<time, unique_id, event, via_cost>>)
        t == get_via_result(m2, unique_id, ds)
    IN  IF due.raised THEN Raise(m, "NotImplementedError")
        ELSE IF ~due.value THEN m
        ELSE IF ~is_compliant_with_screening(m, unique_id) THEN m
        ELSE ViaScreeningProtocol_branch(Ran(m2, "via", t), unique_id, t)

stp_pos == "POSITIVE"

\* Mutant of DnaThenTreatmentScreeningProtocol_inspection: a NEGATIVE
\* inspection sets SURVEILLANCE without calling treat_cin.
DnaThenTreatmentScreeningProtocol_inspection_no_treatment(m, unique_id, ds) ==
    LET event2 == IF m.screening_state[unique_id] = "SURVEILLANCE"
                  THEN "SURVEILLANCE_CANCER_INSPECTION"
                  ELSE "SCREENING_CANCER_INSPECTION"
        m1 == record_event(m, <<time, unique_id, event2, cancer_inspection_cost>>)
        t == get_cancer_inspection_result(m1, unique_id, ds)
        m2 == Ran(m1, "cancer_inspection", t)
    IN  IF t.raised THEN Raise(m2, "ValueError")
        ELSE IF t.result = "NEGATIVE"
        THEN SetState(m2, unique_id, "SURVEILLANCE")
        ELSE IF t.result = "CANCER"
        THEN SetState(detect_cancer(m2, unique_id), unique_id, "SURVEILLANCE")
        ELSE Raise(m2, "NotImplementedError")

\* Mutant of DnaThenTreatmentScreeningProtocol_inspection: an error of the
\* inspection is caught and the agent goes back to ROUTINE.
DnaThenTreatmentScreeningProtocol_inspection_catches_error(m, unique_id, ds) ==
    LET event2 == IF m.screening_state[unique_id] = "SURVEILLANCE"
                  THEN "SURVEILLANCE_CANCER_INSPECTION"
                  ELSE "SCREENING_CANCER_INSPECTION"
        m1 == record_event(m, <<time, unique_id, event2, cancer_inspection_cost>>)
        t == get_cancer_inspection_result(m1, unique_id, ds)
        m2 == Ran(m1, "cancer_inspection", t)
    IN  IF t.raised THEN SetState(m2, unique_id, "ROUTINE")
        ELSE IF t.result = "NEGATIVE"
        THEN SetState(treat_cin(m2, unique_id), unique_id, "SURVEILLANCE")
        ELSE IF t.result = "CANCER"
        THEN SetState(detect_cancer(m2, unique_id), unique_id, "SURVEILLANCE")
        ELSE Raise(m2, "NotImplementedError")

\* DnaThenTreatmentScreeningProtocol.apply: the cancer inspection that
\* follows a positive DNA result.
DnaThenTreatmentScreeningProtocol_inspection(m, unique_id, ds) ==
    LET event2 == IF m.screening_state[unique_id] = "SURVEILLANCE"
                  THEN "SURVEILLANCE_CANCER_INSPECTION"
                  ELSE "SCREENING_CANCER_INSPECTION"
        m1 == record_event(m, <<time, unique_id, event2, cancer_inspection_cost>>)
        t == get_cancer_inspection_result(m1, unique_id, ds)
        m2 == Ran(m1, "cancer_inspection", t)
    IN  IF t.raised THEN Raise(m2, "ValueError")
        ELSE IF t.result = "NEGATIVE"
        THEN SetState(treat_cin(m2, unique_id), unique_id, "SURVEILLANCE")
        ELSE IF t.result = "CANCER"
        THEN SetState(detect_cancer(m2, unique_id), unique_id, "SURVEILLANCE")
        ELSE Raise(m2, "NotImplementedError")

\* Mutant of DnaThenTreatmentScreeningProtocol_branch: the status is set to
\* ROUTINE before a positive result is followed up.
DnaThenTreatmentScreeningProtocol_branch_routine_first(m, unique_id, result, ds) ==
    IF \A strain \in HpvStrain : result[strain] = "NEGATIVE"
    THEN SetState(m, unique_id, "ROUTINE")
    ELSE DnaThenTreatmentScreeningProtocol_inspection(
             SetState(m, unique_id, "ROUTINE"), unique_id, ds)

\* Mutant of DnaThenTreatmentScreeningProtocol_branch: a negative DNA result
\* sends the agent to RE_TEST.
DnaThenTreatmentScreeningProtocol_branch_negative_re_test(m, unique_id, result, ds) ==
    IF \A strain \in HpvStrain : result[strain] = "NEGATIVE"
    THEN SetState(m, unique_id, "RE_TEST")
    ELSE DnaThenTreatmentScreeningProtocol_inspection(m, unique_id, ds)

\* DnaThenTreatmentScreeningProtocol.apply: the branch on the DNA result.
DnaThenTreatmentScreeningProtocol_branch(m, unique_id, result, ds) ==
    IF \A strain \in HpvStrain : result[strain] = "NEGATIVE"
    THEN SetState(m, unique_id, "ROUTINE")
    ELSE DnaThenTreatmentScreeningProtocol_inspection(m, unique_id, ds)

\* DnaThenTreatmentScreeningProtocol.apply: the body of the loop.
DnaThenTreatmentScreeningProtocol_visit(m, unique_id, ds) ==
    LET due == is_due_for_screening(m, unique_id)
        m1 == [m EXCEPT !.last_screen_age = DictPut(@, unique_id, age)]
        event == IF m1.screening_state[unique_id] = "SURVEILLANCE"
                 THEN "SURVEILLANCE_DNA" ELSE "SCREENING_DNA"
        m2 == record_event(m1, <<time, unique_id, event, dna_cost>>)
        t == get_dna_result(m2, unique_id, ds)
    IN  IF due.raised THEN Raise(m, "NotImplementedError")
        ELSE IF ~due.value THEN m
        ELSE IF ~is_compliant_with_screening(m, unique_id) THEN m
        ELSE DnaThenTreatmentScreeningProtocol_branch(Ran(m2, "dna", t), unique_id,
                                                      t.result, ds)

\* Mutant of DnaThenViaScreeningProtocol_inspection: the cancer inspection
\* records no event.
DnaThenViaScreeningProtocol_inspection_no_event(m, unique_id, ds) ==
    LET t == get_cancer_inspection_result(m, unique_id, ds)
        m2 == Ran(m, "cancer_inspection", t)
    IN  IF t.raised THEN Raise(m2, "ValueError")
        ELSE IF t.result = "NEGATIVE"
        THEN SetState(treat_cin(m2, unique_id), unique_id, "SURVEILLANCE")
        ELSE IF t.result = "CANCER"
        THEN SetState(detect_cancer(m2, unique_id), unique_id, "SURVEILLANCE")
        ELSE Raise(m2, "NotImplementedError")

\* DnaThenViaScreeningProtocol.apply: the cancer inspection that follows a
\* DNA result positive for SIXTEEN or EIGHTEEN.
DnaThenViaScreeningProtocol_inspection(m, unique_id, ds) ==
    LET event2 == IF m.screening_state[unique_id] = "SURVEILLANCE"
                  THEN "SURVEILLANCE_CANCER_INSPECTION"
                  ELSE "SCREENING_CANCER_INSPECTION"
        m1 == record_event(m, <<time, unique_id, event2, cancer_inspection_cost>>)
        t == get_cancer_inspection_result(m1, unique_id, ds)
        m2 == Ran(m1, "cancer_inspection", t)
    IN  IF t.raised THEN Raise(m2, "ValueError")
        ELSE IF t.result = "NEGATIVE"
        THEN SetState(treat_cin(m2, unique_id), unique_id, "SURVEILLANCE")
        ELSE IF t.result = "CANCER"
        THEN SetState(detect_cancer(m2, unique_id), unique_id, "SURVEILLANCE")
        ELSE Raise(m2, "NotImplementedError")

\* Mutant of DnaThenViaScreeningProtocol_via: the VIA event is always the
\* screening variant.
DnaThenViaScreeningProtocol_via_screening_event(m, unique_id, ds) ==
    LET event2 == "SCREENING_VIA"
        m1 == record_event(m, <<time, unique_id, event2, via_cost>>)
        t == get_via_result(m1, unique_id, ds)
        m2 == Ran(m1, "via", t)
    IN  IF t.raised THEN Raise(m2, "ValueError")
        ELSE IF t.result = "NEGATIVE" THEN SetState(m2, unique_id, "RE_TEST")
        ELSE IF t.result = "POSITIVE"
        THEN SetState(treat_cin(m2, unique_id), unique_id, "SURVEILLANCE")
        ELSE IF t.result = "CANCER"
        THEN SetState(detect_cancer(m2, unique_id), unique_id, "SURVEILLANCE")
        ELSE Raise(m2, "NotImplementedError")

\* Mutant of DnaThenViaScreeningProtocol_via: a result that is none of the
\* three is taken as NEGATIVE.
DnaThenViaScreeningProtocol_via_else_re_test(m, unique_id, ds) ==
    LET event2 == IF m.screening_state[unique_id] = "SURVEILLANCE"
                  THEN "SURVEILLANCE_VIA" ELSE "SCREENING_VIA"
        m1 == record_event(m, <<time, unique_id, event2, via_cost>>)
        t == get_via_result(m1, unique_id, ds)
        m2 == Ran(m1, "via", t)
    IN  IF t.raised THEN Raise(m2, "ValueError")
        ELSE IF t.result = "POSITIVE"
        THEN SetState(treat_cin(m2, unique_id), unique_id, "SURVEILLANCE")
        ELSE IF t.result = "CANCER"
        THEN SetState(detect_cancer(m2, unique_id), unique_id, "SURVEILLANCE")
        ELSE SetState(m2, unique_id, "RE_TEST")

\* DnaThenViaScreeningProtocol.apply: the VIA test of the last branch.
DnaThenViaScreeningProtocol_via(m, unique_id, ds) ==
    LET event2 == IF m.screening_state[unique_id] = "SURVEILLANCE"
                  THEN "SURVEILLANCE_VIA" ELSE "SCREENING_VIA"
        m1 == record_event(m, <<time, unique_id, event2, via_cost>>)
        t == get_via_result(m1, unique_id, ds)
        m2 == Ran(m1, "via", t)
    IN  IF t.raised THEN Raise(m2, "ValueError")
        ELSE IF t.result = "NEGATIVE" THEN SetState(m2, unique_id, "RE_TEST")
        ELSE IF t.result = "POSITIVE"
        THEN SetState(treat_cin(m2, unique_id), unique_id, "SURVEILLANCE")
        ELSE IF t.result = "CANCER"
        THEN SetState(detect_cancer(m2, unique_id), unique_id, "SURVEILLANCE")
        ELSE Raise(m2, "NotImplementedError")

\* Mutant of DnaThenViaScreeningProtocol_branch: only SIXTEEN leads to the
\* cancer inspection.
DnaThenViaScreeningProtocol_branch_sixteen_only(m, unique_id, result, ds) ==
    IF \A strain \in HpvStrain : result[strain] = "NEGATIVE"
    THEN SetState(m, unique_id, "ROUTINE")
    ELSE IF result["SIXTEEN"] = stp_pos
    THEN DnaThenViaScreeningProtocol_inspection(m, unique_id, ds)
    ELSE DnaThenViaScreeningProtocol_via(m, unique_id, ds)

\* DnaThenViaScreeningProtocol.apply: the branch on the DNA result.
DnaThenViaScreeningProtocol_branch(m, unique_id, result, ds) ==
    IF \A strain \in HpvStrain : result[strain] = "NEGATIVE"
    THEN SetState(m, unique_id, "ROUTINE")
    ELSE IF result["SIXTEEN"] = stp_pos \/ result["EIGHTEEN"] = stp_pos
    THEN DnaThenViaScreeningProtocol_inspection(m, unique_id, ds)
    ELSE DnaThenViaScreeningProtocol_via(m, unique_id, ds)

\* Mutant of DnaThenViaScreeningProtocol_visit: the age of the screening is
\* not noted in last_screen_age.
DnaThenViaScreeningProtocol_visit_age_not_noted(m, unique_id, ds) ==
    LET due == is_due_for_screening(m, unique_id)
        event == IF m.screening_state[unique_id] = "SURVEILLANCE"
                 THEN "SURVEILLANCE_DNA" ELSE "SCREENING_DNA"
        m2 == record_event(m, <<time, unique_id, event, dna_cost>>)
        t == get_dna_result(m2, unique_id, ds)
    IN  IF due.raised THEN Raise(m, "NotImplementedError")
        ELSE IF ~due.value THEN m
        ELSE IF ~is_compliant_with_screening(m, unique_id) THEN m
        ELSE DnaThenViaScreeningProtocol_branch(Ran(m2, "dna", t), unique_id,
                                                t.result, ds)

\* DnaThenViaScreeningProtocol.apply: the body of the loop.
DnaThenViaScreeningProtocol_visit(m, unique_id, ds) ==
    LET due == is_due_for_screening(m, unique_id)
        m1 == [m EXCEPT !.last_screen_age = DictPut(@, unique_id, age)]
        event == IF m1.screening_state[unique_id] = "SURVEILLANCE"
                 THEN "SURVEILLANCE_DNA" ELSE "SCREENING_DNA"
        m2 == record_event(m1, <<time, unique_id, event, dna_cost>>)
        t == get_dna_result(m2, unique_id, ds)
    IN  IF due.raised THEN Raise(m, "NotImplementedError")
        ELSE IF ~due.value THEN m
        ELSE IF ~is_compliant_with_screening(m, unique_id) THEN m
        ELSE DnaThenViaScreeningProtocol_branch(Ran(m2, "dna", t), unique_id,
                                                t.result, ds)

\* DnaThenTriageScreeningProtocol.apply: the cancer inspection that follows a
\* DNA result positive for SIXTEEN or EIGHTEEN.
DnaThenTriageScreeningProtocol_inspection(m, unique_id, ds) ==
    LET event2 == IF m.screening_state[unique_id] = "SURVEILLANCE"
                  THEN "SURVEILLANCE_CANCER_INSPECTION"
                  ELSE "SCREENING_CANCER_INSPECTION"
        m1 == record_event(m, <<time, unique_id, event2, cancer_inspection_cost>>)
        t == get_cancer_inspection_result(m1, unique_id, ds)
        m2 == Ran(m1, "cancer_inspection", t)
    IN  IF t.raised THEN Raise(m2, "ValueError")
        ELSE IF t.result = "NEGATIVE"
        THEN SetState(treat_cin(m2, unique_id), unique_id, "SURVEILLANCE")
        ELSE IF t.result = "CANCER"
        THEN SetState(detect_cancer(m2, unique_id), unique_id, "SURVEILLANCE")
        ELSE Raise(m2, "NotImplementedError")

\* Mutant of DnaThenTriageScreeningProtocol_branch: the last branch leaves the
\* status as it was.
DnaThenTriageScreeningProtocol_branch_no_retest(m, unique_id, result, ds) ==
    IF \A strain \in HpvStrain : result[strain] = "NEGATIVE"
    THEN SetState(m, unique_id, "ROUTINE")
    ELSE IF result["SIXTEEN"] = stp_pos \/ result["EIGHTEEN"] = stp_pos
    THEN DnaThenTriageScreeningProtocol_inspection(m, unique_id, ds)
    ELSE m

\* DnaThenTriageScreeningProtocol.apply: the branch on the DNA result.
DnaThenTriageScreeningProtocol_branch(m, unique_id, result, ds) ==
    IF \A strain \in HpvStrain : result[strain] = "NEGATIVE"
    THEN SetState(m, unique_id, "ROUTINE")
    ELSE IF result["SIXTEEN"] = stp_pos \/ result["EIGHTEEN"] = stp_pos
    THEN DnaThenTriageScreeningProtocol_inspection(m, unique_id, ds)
    ELSE SetState(m, unique_id, "RE_TEST")

\* DnaThenTriageScreeningProtocol.apply: the body of the loop.
DnaThenTriageScreeningProtocol_visit(m, unique_id, ds) ==
    LET due == is_due_for_screening(m, unique_id)
        m1 == [m EXCEPT !.last_screen_age = DictPut(@, unique_id, age)]
        event == IF m1.screening_state[unique_id] = "SURVEILLANCE"
                 THEN "SURVEILLANCE_DNA" ELSE "SCREENING_DNA"
        m2 == record_event(m1, <<time, unique_id, event, dna_cost>>)
        t == get_dna_result(m2, unique_id, ds)
    IN  IF due.raised THEN Raise(m, "NotImplementedError")
        ELSE IF ~due.value THEN m
        ELSE IF ~is_compliant_with_screening(m, unique_id) THEN m
        ELSE DnaThenTriageScreeningProtocol_branch(Ran(m2, "dna", t), unique_id,
                                                   t.result, ds)

\* One pass of the loop body of the named protocol.
ProtocolVisit(name, m, unique_id, ds) ==
    CASE name = "via" -> ViaScreeningProtocol_visit(m, unique_id, ds)
      [] name = "dna_then_treatment" ->
            DnaThenTreatmentScreeningProtocol_visit(m, unique_id, ds)
      [] name = "dna_then_via" -> DnaThenViaScreeningProtocol_visit(m, unique_id, ds)
      [] name = "dna_then_triage" ->
            DnaThenTriageScreeningProtocol_visit(m, unique_id, ds)

\* What one pass of the loop did for the agent it visited: her state before
\* (m) and after (r), the gate's answers before, and the tests run.
Observation(m, r, unique_id) ==
    LET due == is_due_for_screening(m, unique_id)
    IN  [id            |-> unique_id,
         due           |-> ~due.raised /\ due.value,
         compliant     |-> is_compliant_with_screening(m, unique_id),
         detected      |-> m.cancer_detection[unique_id] = "DETECTED",
         state_before  |-> m.screening_state[unique_id],
         state_after   |-> r.screening_state[unique_id],
         screened_before |-> unique_id \in DOMAIN m.last_screen_age,
         screened_after  |-> unique_id \in DOMAIN r.last_screen_age,
         age_before    |-> IF unique_id \in DOMAIN m.last_screen_age
                           THEN m.last_screen_age[unique_id] ELSE -1,
         age_after     |-> IF unique_id \in DOMAIN r.last_screen_age
                           THEN r.last_screen_age[unique_id] ELSE -1,
         tests         |-> r.tests,
         events        |-> SubSeq(r.events, Len(m.events) + 1, Len(r.events)),
         calls         |-> SubSeq(r.calls, Len(m.calls) + 1, Len(r.calls)),
         writes        |-> SubSeq(r.writes, Len(m.writes) + 1, Len(r.writes)),
         draws         |-> r.pos - m.pos,
         err           |-> r.err]

\* The loop of apply over unique_ids; an exception ends it. Each pass is
\* noted in the field visits.
RECURSIVE apply_loop(_, _, _, _)
apply_loop(name, m, unique_ids, ds) ==
    IF unique_ids = <<>> \/ m.err # "none" THEN m
    ELSE LET unique_id == Head(unique_ids)
             m0 == [m EXCEPT !.tests = <<>>]
             r == ProtocolVisit(name, m0, unique_id, ds)
             r1 == [r EXCEPT !.visits = Append(@, Observation(m0, r, unique_id))]
         IN  apply_loop(name, r1, Tail(unique_ids), ds)

\* model.unique_ids[model.life.living]: the living agents, in id order.
RECURSIVE Ascending(_)
Ascending(S) ==
    IF S = {} THEN <<>>
    ELSE LET x == CHOOSE x \in S : \A y \in S : x <= y
         IN  <<x>> \o Ascending(S \ {x})

None == 0

\* Mutant of apply: the protocol that does not screen runs the VIA loop.
apply_none_screens(name, m, unique_id, ds) ==
    apply_loop(IF name = "none" THEN "via" ELSE name, m,
               IF unique_id = None THEN Ascending(living) ELSE <<unique_id>>,
               ds)

\* protocols[name](...).apply(unique_id)
apply(name, m, unique_id, ds) ==
    IF name = "none" THEN m
    ELSE apply_loop(name, m,
                    IF unique_id = None THEN Ascending(living) ELSE <<unique_id>>,
                    ds)

\* NoScreeningProtocol.is_due ignores its arguments; the other protocols are
\* gated by is_due_for_screening.
is_due(name, m, unique_id) ==
    IF name = "none" THEN DueReturn(FALSE)
    ELSE is_due_for_screening(m, unique_id)

protocols == {"none", "via", "dna_then_treatment", "dna_then_via", "dna_then_triage"}

\* ------------------------------------------------------------ initial states

HpvRank(s) ==
    CASE s = "NORMAL" -> 0 [] s = "HPV" -> 1 [] s = "CIN_1" -> 2
      [] s = "CIN_2_3" -> 3 [] s = "CANCER" -> 4

\* The worst state across the strains.
Worst(strains) ==
    CHOOSE s \in HpvState :
        /\ \E x \in HpvStrain : strains[x] = s
        /\ \A x \in HpvStrain : HpvRank(strains[x]) <= HpvRank(s)

Profile(low_risk, high_risk, sixteen, eighteen, cancer_state) ==
    [strains |-> [strain \in HpvStrain |->
                    CASE strain = "LOW_RISK" -> low_risk
                      [] strain = "HIGH_RISK" -> high_risk
                      [] strain = "SIXTEEN" -> sixteen
                      [] strain = "EIGHTEEN" -> eighteen],
     cancer |-> cancer_state]

\* True disease states of a living woman.
LivingProfiles ==
    { Profile("NORMAL", "NORMAL", "NORMAL", "NORMAL", "NORMAL"),
      Profile("CIN_1", "NORMAL", "NORMAL", "NORMAL", "NORMAL"),
      Profile("NORMAL", "CIN_2_3", "NORMAL", "NORMAL", "NORMAL"),
      Profile("HPV", "CIN_1", "HPV", "NORMAL", "NORMAL"),
      Profile("NORMAL", "NORMAL", "NORMAL", "CANCER", "LOCAL"),
      Profile("NORMAL", "CANCER", "NORMAL", "NORMAL", "REGIONAL"),
      Profile("NORMAL", "NORMAL", "CANCER", "CIN_2_3", "DISTANT") }

\* A woman who died of cancer.
DeadProfile == Profile("NORMAL", "NORMAL", "NORMAL", "CANCER", "DEAD")

\* The call noted in last when the latest step was no call.
NoCall == [call |-> "none", unique_id |-> None, visits |-> <<>>,
           err |-> "none", draws |-> 0, value |-> FALSE]

\* The clock, the log and the dictionaries after construction.
InitRun ==
    /\ age = initial_age
    /\ time = 0
    /\ last_screen_age = <<>>
    /\ events = <<>>
    /\ calls = <<>>
    /\ ndraws = 0
    /\ last = NoCall

\* Agent 1 is alive and ranges over every combination of true state, status,
\* detection, HIV status and compliance; agent 2 died of cancer (and is still
\* ROUTINE, undetected and compliant in the arrays).
InitAgents ==
    /\ \E p1 \in LivingProfiles, p2 \in {DeadProfile} :
          /\ hpv_strains = <<p1.strains, p2.strains>>
          /\ max_hpv_state = <<Worst(p1.strains), Worst(p2.strains)>>
          /\ cancer = <<p1.cancer, p2.cancer>>
          /\ living = {a \in Agents : <<p1, p2>>[a].cancer # "DEAD"}
    /\ hiv_detected \in SUBSET {1}
    /\ \E c \in BOOLEAN : compliant_routine_state = <<c, TRUE>>
    /\ \E c \in BOOLEAN : compliant_surveillance_state = <<c, TRUE>>
    /\ \E s \in AnyState : screening_state = <<s, "ROUTINE">>
    /\ \E d \in CancerDetectionState : cancer_detection = <<d, "UNDETECTED">>
    /\ cervical_lesion = <<"NORMAL", "NORMAL">>
    /\ screening_tests = "models"

\* A run of one of the four protocols that screen.
Init ==
    /\ protocol \in protocols \ {"none"}
    /\ InitRun
    /\ InitAgents

\* A run of the protocol that does not screen.
InitNone ==
    /\ protocol = "none"
    /\ InitRun
    /\ InitAgents

\* The inputs of the gate: any age up to one step past the routine window,
\* agent 1 of any status, detection, HIV status and compliance, never
\* screened or screened at some earlier age; agent 2 never screened, in
\* ROUTINE, of any HIV status and compliance.
InitGate ==
    /\ protocol = "via"
    /\ age \in initial_age .. age_routine_end + 1
    /\ time = age - initial_age
    /\ \E p \in {Profile("NORMAL", "NORMAL", "NORMAL", "NORMAL", "NORMAL")} :
          /\ hpv_strains = <<p.strains, p.strains>>
          /\ max_hpv_state = <<Worst(p.strains), Worst(p.strains)>>
          /\ cancer = <<p.cancer, p.cancer>>
    /\ living = Agents
    /\ hiv_detected \in SUBSET Agents
    /\ compliant_routine_state \in [Agents -> BOOLEAN]
    /\ compliant_surveillance_state \in [Agents -> BOOLEAN]
    /\ \E s \in AnyState : screening_state = <<s, "ROUTINE">>
    /\ \E d \in CancerDetectionState : cancer_detection = <<d, "UNDETECTED">>
    /\ last_screen_age \in {<<>>} \cup {DictPut(<<>>, 1, x) : x \in initial_age .. age}
    /\ cervical_lesion = <<"NORMAL", "NORMAL">>
    /\ screening_tests = "models"
    /\ events = <<>>
    /\ calls = <<>>
    /\ ndraws = 0
    /\ last = NoCall

\* ------------------------------------------------------------ actions

\* The simulation clock advances one step.
Tick ==
    /\ age < MaxAge
    /\ age' = age + 1
    /\ time' = time + 1
    /\ last' = NoCall
    /\ UNCHANGED <<protocol, hidden, cancer_detection, screening_state,
                   last_screen_age, events, calls, ndraws>>

\* The draws a call of apply may take: two tests for each agent visited.
DrawSeqs(unique_id) ==
    [1 .. (IF unique_id = None THEN 2 * Cardinality(living) ELSE 2) -> Draws]

\* protocol.apply(unique_id), or protocol.apply() when unique_id is None.
Apply(unique_id) ==
    /\ Len(events) < MaxEvents
    /\ \E ds \in DrawSeqs(unique_id) :
        \E r \in {apply(protocol, Model, unique_id, ds)} :
            /\ screening_state' = r.screening_state
            /\ last_screen_age' = r.last_screen_age
            /\ cancer_detection' = r.cancer_detection
            /\ events' = r.events
            /\ calls' = r.calls
            /\ ndraws' = ndraws + r.pos
            /\ last' = [call |-> "apply", unique_id |-> unique_id,
                        visits |-> r.visits, err |-> r.err, draws |-> r.pos,
                        value |-> FALSE]
            /\ UNCHANGED <<protocol, age, time, hidden>>

\* Mutant of IsDue: the query notes the agent as screened at the current age.
IsDue_marks_screened(unique_id) ==
    LET r == is_due(protocol, Model, unique_id)
    IN  /\ last' = [call |-> "is_due", unique_id |-> unique_id, visits |-> <<>>,
                    err |-> IF r.raised THEN "NotImplementedError" ELSE "none",
                    draws |-> 0, value |-> r.value]
        /\ last_screen_age' = DictPut(last_screen_age, unique_id, age)
        /\ UNCHANGED <<protocol, age, time, hidden, cancer_detection,
                       screening_state, events, calls, ndraws>>

\* protocol.is_due(unique_id)
IsDue(unique_id) ==
    LET r == is_due(protocol, Model, unique_id)
    IN  /\ last' = [call |-> "is_due", unique_id |-> unique_id, visits |-> <<>>,
                    err |-> IF r.raised THEN "NotImplementedError" ELSE "none",
                    draws |-> 0, value |-> r.value]
        /\ UNCHANGED <<protocol, age, time, hidden, cancer_detection,
                       screening_state, last_screen_age, events, calls, ndraws>>

\* is_compliant_with_screening(model, unique_id)
IsCompliant(unique_id) ==
    /\ last' = [call |-> "is_compliant", unique_id |-> unique_id, visits |-> <<>>,
                err |-> "none", draws |-> 0,
                value |-> is_compliant_with_screening(Model, unique_id)]
    /\ UNCHANGED <<protocol, age, time, hidden, cancer_detection,
                   screening_state, last_screen_age, events, calls, ndraws>>

Next ==
    \/ Tick
    \/ \E unique_id \in living \cup {None} : Apply(unique_id)

Spec == Init /\ [][Next]_vars

\* The protocol that does not screen, called for any agent or for all, and
\* asked whether an agent is due.
NextNone ==
    \/ Tick
    \/ \E unique_id \in Agents \cup {None} : Apply(unique_id)
    \/ \E unique_id \in Agents : IsDue(unique_id)

SpecNone == InitNone /\ [][NextNone]_vars

\* An agent whose arrays contradict each other: HPV state CANCER with cancer
\* state NORMAL.
ContradictoryProfile == Profile("NORMAL", "CANCER", "NORMAL", "NORMAL", "NORMAL")

\* Runs in which a test fails or returns what no branch handles: agent 2 is
\* dead or has contradictory states, and the protocol is built with the test
\* models or with scripted tests. Both agents are compliant and undetected.
InitFaults ==
    /\ protocol \in protocols \ {"none"}
    /\ InitRun
    /\ \E p1 \in {Profile("NORMAL", "NORMAL", "NORMAL", "NORMAL", "NORMAL"),
                  Profile("NORMAL", "CIN_2_3", "NORMAL", "NORMAL", "NORMAL")},
          p2 \in {DeadProfile, ContradictoryProfile} :
          /\ hpv_strains = <<p1.strains, p2.strains>>
          /\ max_hpv_state = <<Worst(p1.strains), Worst(p2.strains)>>
          /\ cancer = <<p1.cancer, p2.cancer>>
          /\ living = {a \in Agents : <<p1, p2>>[a].cancer # "DEAD"}
    /\ hiv_detected = {}
    /\ compliant_routine_state = <<TRUE, TRUE>>
    /\ compliant_surveillance_state = <<TRUE, TRUE>>
    /\ screening_state = <<"ROUTINE", "ROUTINE">>
    /\ cancer_detection = <<"UNDETECTED", "UNDETECTED">>
    /\ cervical_lesion = <<"NORMAL", "NORMAL">>
    /\ screening_tests \in {"models", "scripted"}

\* apply is called for any agent, dead ones included, or for all.
NextFaults ==
    \/ Tick
    \/ \E unique_id \in Agents \cup {None} : Apply(unique_id)

SpecFaults == InitFaults /\ [][NextFaults]_vars

\* A cohort of two under any of the five protocols: agent 1 has a high-risk
\* lesion or has contradictory states, and starts in any status; agent 2 has
\* a high-risk lesion or is dead. Both are compliant.
InitCohort ==
    /\ protocol \in protocols
    /\ InitRun
    /\ \E p1 \in {Profile("NORMAL", "CIN_2_3", "NORMAL", "NORMAL", "NORMAL"),
                  ContradictoryProfile},
          p2 \in {Profile("NORMAL", "CIN_2_3", "NORMAL", "NORMAL", "NORMAL"),
                  DeadProfile} :
          /\ hpv_strains = <<p1.strains, p2.strains>>
          /\ max_hpv_state = <<Worst(p1.strains), Worst(p2.strains)>>
          /\ cancer = <<p1.cancer, p2.cancer>>
          /\ living = {a \in Agents : <<p1, p2>>[a].cancer # "DEAD"}
    /\ hiv_detected = {}
    /\ compliant_routine_state = <<TRUE, TRUE>>
    /\ compliant_surveillance_state = <<TRUE, TRUE>>
    /\ \E s \in ScreeningState : screening_state = <<s, "ROUTINE">>
    /\ cancer_detection = <<"UNDETECTED", "UNDETECTED">>
    /\ cervical_lesion = <<"NORMAL", "NORMAL">>
    /\ screening_tests = "models"

\* The simulation loop applies the protocol to a living agent or to all.
NextCohort ==
    \/ Tick
    \/ \E unique_id \in living \cup {None} : Apply(unique_id)

SpecCohort == InitCohort /\ [][NextCohort]_vars

\* Runs to be replayed: one of the four protocols that screen, agent 1 with a
\* high-risk lesion or with contradictory states, agent 2 with a lesion of
\* strain 16 or dead. Both are in ROUTINE and compliant.
InitReplay ==
    /\ protocol \in protocols \ {"none"}
    /\ InitRun
    /\ \E p1 \in {Profile("NORMAL", "CIN_2_3", "NORMAL", "NORMAL", "NORMAL"),
                  ContradictoryProfile},
          p2 \in {Profile("NORMAL", "NORMAL", "CIN_1", "NORMAL", "NORMAL"),
                  DeadProfile} :
          /\ hpv_strains = <<p1.strains, p2.strains>>
          /\ max_hpv_state = <<Worst(p1.strains), Worst(p2.strains)>>
          /\ cancer = <<p1.cancer, p2.cancer>>
          /\ living = {a \in Agents : <<p1, p2>>[a].cancer # "DEAD"}
    /\ hiv_detected = {}
    /\ compliant_routine_state = <<TRUE, TRUE>>
    /\ compliant_surveillance_state = <<TRUE, TRUE>>
    /\ screening_state = <<"ROUTINE", "ROUTINE">>
    /\ cancer_detection = <<"UNDETECTED", "UNDETECTED">>
    /\ cervical_lesion = <<"NORMAL", "NORMAL">>
    /\ screening_tests = "models"

\* The simulation loop applies the protocol to all agents at once.
NextReplay ==
    \/ Tick
    \/ Apply(None)

SpecReplay == InitReplay /\ [][NextReplay]_vars

\* The gate asked between visits: one agent under the VIA protocol, healthy
\* or with a high-risk lesion, of any status and HIV status; the other agent
\* is dead.
InitQuery ==
    /\ protocol = "via"
    /\ InitRun
    /\ \E p1 \in {Profile("NORMAL", "NORMAL", "NORMAL", "NORMAL", "NORMAL"),
                  Profile("NORMAL", "CIN_2_3", "NORMAL", "NORMAL", "NORMAL")},
          p2 \in {DeadProfile} :
          /\ hpv_strains = <<p1.strains, p2.strains>>
          /\ max_hpv_state = <<Worst(p1.strains), Worst(p2.strains)>>
          /\ cancer = <<p1.cancer, p2.cancer>>
          /\ living = {a \in Agents : <<p1, p2>>[a].cancer # "DEAD"}
    /\ hiv_detected \in SUBSET {1}
    /\ compliant_routine_state = <<TRUE, TRUE>>
    /\ compliant_surveillance_state = <<TRUE, TRUE>>
    /\ \E s \in ScreeningState : screening_state = <<s, "ROUTINE">>
    /\ cancer_detection = <<"UNDETECTED", "UNDETECTED">>
    /\ cervical_lesion = <<"NORMAL", "NORMAL">>
    /\ screening_tests = "models"

\* The simulation loop applies the protocol to a living agent and asks
\* whether an agent is due.
NextQuery ==
    \/ Tick
    \/ \E unique_id \in living : Apply(unique_id)
    \/ \E unique_id \in Agents : IsDue(unique_id)

SpecQuery == InitQuery /\ [][NextQuery]_vars

\* The test models called on their own, on every input and draw.
InitTests ==
    /\ protocol = "none"
    /\ InitRun
    /\ \E p1 \in {Profile("NORMAL", "NORMAL", "NORMAL", "NORMAL", "NORMAL")},
          p2 \in {DeadProfile} :
          /\ hpv_strains = <<p1.strains, p2.strains>>
          /\ max_hpv_state = <<Worst(p1.strains), Worst(p2.strains)>>
          /\ cancer = <<p1.cancer, p2.cancer>>
    /\ living = {1}
    /\ cervical_lesion = <<"NORMAL", "NORMAL">>
    /\ screening_tests = "models"
    /\ hiv_detected = {}
    /\ compliant_routine_state = <<TRUE, TRUE>>
    /\ compliant_surveillance_state = <<TRUE, TRUE>>
    /\ screening_state = <<"ROUTINE", "ROUTINE">>
    /\ cancer_detection = <<"UNDETECTED", "UNDETECTED">>

\* A call of a test model's get_result: what it was given, the draw the
\* random source had next, and what came of it.
TestCall(test, args, draw, t) ==
    [call |-> test, unique_id |-> None, visits |-> <<>>,
     err |-> IF t.raised THEN "ValueError" ELSE "none",
     draws |-> t.used, value |-> FALSE,
     args |-> args, draw |-> draw, result |-> t.result]

\* What a test model called on its own leaves alone.
TestFrame ==
    UNCHANGED <<protocol, age, time, hidden, cancer_detection,
                screening_state, last_screen_age, events, calls>>

\* ViaScreeningTest.get_result(true_hpv_state, true_cancer_state)
ViaTest ==
    \E true_hpv_state \in HpvState, true_cancer_state \in CancerState, draw \in Draws :
        \E t \in {ViaScreeningTest_get_result(true_hpv_state, true_cancer_state, draw)} :
            /\ ndraws < MaxTests
            /\ ndraws' = ndraws + t.used
            /\ last' = TestCall("ViaScreeningTest", <<true_hpv_state, true_cancer_state>>, draw, t)
            /\ TestFrame

\* DnaScreeningTest.get_result(true_hpv_states)
DnaTest ==
    \E true_hpv_states \in [HpvStrain -> HpvState], draw \in Draws :
        \E t \in {DnaScreeningTest_get_result(true_hpv_states, draw)} :
            /\ ndraws < MaxTests
            /\ ndraws' = ndraws + t.used
            /\ last' = TestCall("DnaScreeningTest", <<true_hpv_states>>, draw, t)
            /\ TestFrame

\* CytologyScreeningTest.get_result(true_cervical_lesion_state)
CytologyTest ==
    \E true_cervical_lesion_state \in CervicalLesionState \cup {UnexpectedLesionState},
       draw \in Draws :
        \E t \in {CytologyScreeningTest_get_result(true_cervical_lesion_state, draw)} :
            /\ ndraws < MaxTests
            /\ ndraws' = ndraws + t.used
            /\ last' = TestCall("CytologyScreeningTest", <<true_cervical_lesion_state>>, draw, t)
            /\ TestFrame

\* CancerInspectionScreeningTest.get_result(true_cancer_state)
CancerInspectionTest ==
    \E true_cancer_state \in CancerState, draw \in Draws :
        \E t \in {CancerInspectionScreeningTest_get_result(true_cancer_state, draw)} :
            /\ ndraws < MaxTests
            /\ ndraws' = ndraws + t.used
            /\ last' = TestCall("CancerInspectionScreeningTest", <<true_cancer_state>>, draw, t)
            /\ TestFrame

NextTests ==
    \/ ViaTest
    \/ DnaTest
    \/ CytologyTest
    \/ CancerInspectionTest

SpecTests == InitTests /\ [][NextTests]_vars

\* The co-test and the triage rules, at the ages around the co-test's band
\* and for every lesion state of agent 1.
InitStrategy ==
    /\ protocol = "none"
    /\ age \in {cotest_age_min - 1, cotest_age_min, cotest_age_max, cotest_age_max + 1}
    /\ time = age - initial_age
    /\ last_screen_age = <<>>
    /\ events = <<>>
    /\ calls = <<>>
    /\ ndraws = 0
    /\ last = NoCall
    /\ \E p \in {Profile("NORMAL", "CIN_1", "HPV", "NORMAL", "NORMAL")} :
          /\ hpv_strains = <<p.strains, p.strains>>
          /\ max_hpv_state = <<Worst(p.strains), Worst(p.strains)>>
          /\ cancer = <<p.cancer, p.cancer>>
    /\ living = Agents
    /\ \E lesion \in CervicalLesionState : cervical_lesion = <<lesion, "NORMAL">>
    /\ screening_tests = "models"
    /\ hiv_detected = {}
    /\ compliant_routine_state = <<TRUE, TRUE>>
    /\ compliant_surveillance_state = <<TRUE, TRUE>>
    /\ screening_state = <<"ROUTINE", "ROUTINE">>
    /\ cancer_detection = <<"UNDETECTED", "UNDETECTED">>

\* CoTestScreeningTest.get_result(unique_id)
CoTest(unique_id) ==
    \E lesion_read \in CervicalLesionState \cup {UnexpectedLesionState},
       ds \in [1 .. 3 -> Draws] :
        \E t \in {CoTestScreeningTest_get_result(unique_id, lesion_read, ds)} :
            /\ ndraws < MaxTests
            /\ ndraws' = ndraws + t.used
            /\ last' = [call |-> "CoTestScreeningTest", unique_id |-> unique_id,
                        visits |-> <<>>,
                        err |-> IF t.raised THEN t.result ELSE "none",
                        draws |-> t.used, value |-> FALSE,
                        args |-> <<unique_id>>, result |-> t.result]
            /\ TestFrame

\* A call of a triage rule: what it was given and what came of it.
TriageCall(rule, unique_id, given, r) ==
    [call |-> rule, unique_id |-> unique_id, visits |-> <<>>,
     err |-> r.error, draws |-> 0, value |-> FALSE,
     args |-> <<unique_id, given>>, result |-> r.value]

\* ScreeningStrategy.triage_cytology_results(unique_id, result)
TriageCytology(unique_id) ==
    \E result \in ScreeningTestResult :
        /\ last' = TriageCall("triage_cytology_results", unique_id, result,
                              triage_cytology_results(unique_id, result))
        /\ UNCHANGED ndraws
        /\ TestFrame

\* ScreeningStrategy.triage_dna_results(unique_id, result)
TriageDna(unique_id) ==
    \E result \in [HpvStrain -> {"NEGATIVE", "POSITIVE"}] :
        /\ last' = TriageCall("triage_dna_results", unique_id, result,
                              triage_dna_results(unique_id, result))
        /\ UNCHANGED ndraws
        /\ TestFrame

\* ScreeningStrategy.triage_cotest_results(unique_id, results)
TriageCotest(unique_id) ==
    \E results \in [cotest : ScreeningTestResult, cytology : ScreeningTestResult,
                     hr_hpv : BOOLEAN, hpv_16_18 : BOOLEAN] :
        /\ last' = TriageCall("triage_cotest_results", unique_id, results,
                              triage_cotest_results(unique_id, results))
        /\ UNCHANGED ndraws
        /\ TestFrame

\* A DNA result with the named strains POSITIVE.
DnaPositiveFor(strains) ==
    [strain \in HpvStrain |-> IF strain \in strains THEN "POSITIVE" ELSE "NEGATIVE"]

\* The result dictionaries handed to triage_results: a co-test record (with
\* or without the key hpv), a cytology result (with or without hpv), a DNA
\* result alone, and a dictionary with none of the three keys. A key that is
\* absent has a value here that is not read.
ResultRecords ==
    [keys : {{"cotest", "cytology", "hr_hpv", "hpv_16_18"},
             {"cotest", "cytology", "hr_hpv", "hpv_16_18", "hpv"}},
     cotest : {"NEGATIVE", "POSITIVE"}, cytology : {"NEGATIVE", "POSITIVE"},
     hr_hpv : BOOLEAN, hpv_16_18 : BOOLEAN, hpv : {DnaPositiveFor({"SIXTEEN"})}]
    \cup
    [keys : {{"cytology"}, {"cytology", "hpv"}},
     cotest : {"NEGATIVE"}, cytology : ScreeningTestResult,
     hr_hpv : {FALSE}, hpv_16_18 : {FALSE}, hpv : {DnaPositiveFor({"SIXTEEN"})}]
    \cup
    [keys : {{"hpv"}, {}},
     cotest : {"NEGATIVE"}, cytology : {"NEGATIVE"},
     hr_hpv : {FALSE}, hpv_16_18 : {FALSE},
     hpv : {DnaPositiveFor({}), DnaPositiveFor({"EIGHTEEN"}),
            DnaPositiveFor({"HIGH_RISK"})}]

\* ScreeningStrategy.triage_results(unique_id, results)
TriageResults(unique_id) ==
    \E results \in ResultRecords :
        /\ last' = TriageCall("triage_results", unique_id, results,
                              triage_results(unique_id, results))
        /\ UNCHANGED ndraws
        /\ TestFrame

NextStrategy ==
    \/ \E unique_id \in Agents : CoTest(unique_id)
    \/ \E unique_id \in Agents : TriageCytology(unique_id)
    \/ \E unique_id \in Agents : TriageDna(unique_id)
    \/ \E unique_id \in Agents : TriageCotest(unique_id)
    \/ \E unique_id \in Agents : TriageResults(unique_id)

SpecStrategy == InitStrategy /\ [][NextStrategy]_vars

\* The gate's two queries on every input.
NextGate ==
    \/ \E unique_id \in Agents : IsDue(unique_id)
    \/ \E unique_id \in Agents : IsCompliant(unique_id)

SpecGate == InitGate /\ [][NextGate]_vars

\* ------------------------------------------------------------ claims

\* The passes of the loop made by the latest call of apply.
Visits == {last.visits[i] : i \in DOMAIN last.visits}

\* The agent passed the gate: she was due and compliant when visited.
Screened(v) == v.due /\ v.compliant

Treated(v) == v.calls = <<<<"treat_cin", v.id>>>>

Detected(v) == v.calls = <<<<"detect_cancer", v.id>>>>

AnyPositive(result) == \E strain \in HpvStrain : result[strain] # "NEGATIVE"

\* C1: under the VIA-only protocol every due and compliant agent gets exactly
\* one test, a VIA test; NEGATIVE sets ROUTINE and calls nothing, POSITIVE
\* calls treat_cin for her and sets SURVEILLANCE, CANCER calls detect_cancer
\* for her and sets SURVEILLANCE, whatever her status was.
C1_ViaOnly ==
    \A v \in Visits :
        protocol = "via" /\ Screened(v) =>
            /\ Len(v.tests) = 1
            /\ v.tests[1].test = "via"
            /\ v.draws <= 1
            /\ v.tests[1].result = "NEGATIVE" =>
                  v.state_after = "ROUTINE" /\ v.calls = <<>>
            /\ v.tests[1].result = "POSITIVE" =>
                  v.state_after = "SURVEILLANCE" /\ Treated(v)
            /\ v.tests[1].result = "CANCER" =>
                  v.state_after = "SURVEILLANCE" /\ Detected(v)
            /\ screening_state[v.id] = v.state_after

\* C1 witness: a RE_TEST agent screened by VIA with result CANCER.
C1_Witness ==
    \E v \in Visits :
        /\ protocol = "via" /\ Screened(v)
        /\ v.state_before = "RE_TEST"
        /\ v.tests[1].result = "CANCER"
        /\ v.state_after = "SURVEILLANCE"

\* C2: under DNA-then-treatment every due and compliant agent gets a DNA test;
\* an all-negative result sets ROUTINE with no second test and no callback;
\* any positive strain is followed by a cancer inspection, whose NEGATIVE
\* calls treat_cin and sets SURVEILLANCE and whose CANCER calls detect_cancer
\* and sets SURVEILLANCE.
C2_DnaThenTreatment ==
    \A v \in Visits :
        protocol = "dna_then_treatment" /\ Screened(v) =>
            /\ Len(v.tests) >= 1
            /\ v.tests[1].test = "dna"
            /\ ~AnyPositive(v.tests[1].result) =>
                  /\ Len(v.tests) = 1
                  /\ v.state_after = "ROUTINE"
                  /\ v.calls = <<>>
            /\ AnyPositive(v.tests[1].result) =>
                  /\ Len(v.tests) = 2
                  /\ v.tests[2].test = "cancer_inspection"
                  /\ v.tests[2].result = "NEGATIVE" =>
                        v.state_after = "SURVEILLANCE" /\ Treated(v)
                  /\ v.tests[2].result = "CANCER" =>
                        v.state_after = "SURVEILLANCE" /\ Detected(v)
            /\ screening_state[v.id] = v.state_after

\* C2 witness: a positive DNA result followed by an inspection that finds
\* cancer.
C2_Witness ==
    \E v \in Visits :
        /\ protocol = "dna_then_treatment" /\ Screened(v)
        /\ Len(v.tests) = 2
        /\ v.tests[2].result = "CANCER"
        /\ Detected(v)

\* C3: under DNA-then-VIA every due and compliant agent gets a DNA test;
\* all-negative sets ROUTINE; SIXTEEN or EIGHTEEN positive is followed by a
\* cancer inspection (NEGATIVE: treat_cin and SURVEILLANCE, CANCER:
\* detect_cancer and SURVEILLANCE); any other result is followed by a VIA test
\* (NEGATIVE: RE_TEST, POSITIVE: treat_cin and SURVEILLANCE, CANCER:
\* detect_cancer and SURVEILLANCE).
C3_DnaThenVia ==
    \A v \in Visits :
        protocol = "dna_then_via" /\ Screened(v) =>
            LET dna == v.tests[1].result
                sixteen_eighteen == dna["SIXTEEN"] = "POSITIVE"
                                    \/ dna["EIGHTEEN"] = "POSITIVE"
            IN  /\ v.tests[1].test = "dna"
                /\ ~AnyPositive(dna) =>
                      /\ Len(v.tests) = 1
                      /\ v.state_after = "ROUTINE"
                      /\ v.calls = <<>>
                /\ sixteen_eighteen =>
                      /\ Len(v.tests) = 2
                      /\ v.tests[2].test = "cancer_inspection"
                      /\ v.tests[2].result = "NEGATIVE" =>
                            v.state_after = "SURVEILLANCE" /\ Treated(v)
                      /\ v.tests[2].result = "CANCER" =>
                            v.state_after = "SURVEILLANCE" /\ Detected(v)
                /\ AnyPositive(dna) /\ ~sixteen_eighteen =>
                      /\ Len(v.tests) = 2
                      /\ v.tests[2].test = "via"
                      /\ v.tests[2].result = "NEGATIVE" =>
                            v.state_after = "RE_TEST" /\ v.calls = <<>>
                      /\ v.tests[2].result = "POSITIVE" =>
                            v.state_after = "SURVEILLANCE" /\ Treated(v)
                      /\ v.tests[2].result = "CANCER" =>
                            v.state_after = "SURVEILLANCE" /\ Detected(v)
                /\ screening_state[v.id] = v.state_after

\* C3 witness: only the other high-risk strain is positive and the VIA test
\* that follows is negative.
C3_Witness ==
    \E v \in Visits :
        /\ protocol = "dna_then_via" /\ Screened(v)
        /\ Len(v.tests) = 2
        /\ v.tests[2].test = "via"
        /\ v.tests[2].result = "NEGATIVE"
        /\ v.state_after = "RE_TEST"

\* The 'otherwise' DNA result: some strain positive, neither SIXTEEN nor
\* EIGHTEEN.
Otherwise(result) ==
    /\ AnyPositive(result)
    /\ result["SIXTEEN"] # "POSITIVE"
    /\ result["EIGHTEEN"] # "POSITIVE"

\* DNA-then-VIA and DNA-then-triage visiting the agent from the current state
\* with the draws ds.
SideBySide(unique_id, ds) ==
    [via    |-> DnaThenViaScreeningProtocol_visit(Model, unique_id, ds),
     triage |-> DnaThenTriageScreeningProtocol_visit(Model, unique_id, ds),
     dna    |-> get_dna_result(Model, unique_id, ds).result]

PassesGate(unique_id) ==
    /\ is_due_for_screening(Model, unique_id) = DueReturn(TRUE)
    /\ is_compliant_with_screening(Model, unique_id)

\* C4: from every state of a DNA-then-VIA or DNA-then-triage run, the two
\* protocols visiting the same due and compliant agent with the same draws
\* leave the same model (events, callbacks, last_screen_age, screening_state,
\* detection, draws taken, tests run) when the DNA result is all-negative or
\* positive for SIXTEEN or EIGHTEEN; otherwise DNA-then-triage only records
\* the DNA event, takes the one DNA draw, calls nothing and sets RE_TEST,
\* where DNA-then-VIA goes on to a VIA test.
C4_TriageRefinesVia ==
    protocol \in {"dna_then_via", "dna_then_triage"} =>
        \A unique_id \in Agents, ds \in [1 .. 2 -> Draws] :
            PassesGate(unique_id) =>
                \E x \in {SideBySide(unique_id, ds)} :
                    IF ~Otherwise(x.dna)
                    THEN x.triage = x.via
                    ELSE /\ x.triage.screening_state =
                               [screening_state EXCEPT ![unique_id] = "RE_TEST"]
                         /\ x.triage.last_screen_age = x.via.last_screen_age
                         /\ Len(x.triage.events) = Len(events) + 1
                         /\ x.triage.events = SubSeq(x.via.events, 1, Len(events) + 1)
                         /\ x.triage.events[Len(events) + 1][3]
                               \in {"SCREENING_DNA", "SURVEILLANCE_DNA"}
                         /\ x.triage.calls = calls
                         /\ x.triage.cancer_detection = cancer_detection
                         /\ x.triage.pos = 1
                         /\ Len(x.triage.tests) = 1
                         /\ Len(x.via.tests) = 2
                         /\ x.via.tests[2].test = "via"
                         /\ x.via.events[Len(events) + 2][3]
                               \in {"SCREENING_VIA", "SURVEILLANCE_VIA"}

\* C4 witness: in a DNA-then-triage run that has screened before, an agent is
\* due whose DNA result is 'otherwise': triage sets RE_TEST where the VIA
\* test of DNA-then-VIA is positive and leads to treatment.
C4_Witness ==
    /\ protocol = "dna_then_triage"
    /\ events # <<>>
    /\ \E unique_id \in Agents, ds \in [1 .. 2 -> Draws] :
          /\ PassesGate(unique_id)
          /\ Otherwise(SideBySide(unique_id, ds).dna)
          /\ SideBySide(unique_id, ds).triage.screening_state[unique_id] = "RE_TEST"
          /\ SideBySide(unique_id, ds).via.screening_state[unique_id] = "SURVEILLANCE"

\* The visit changed nothing for the agent and ran nothing.
Untouched(v) ==
    /\ v.events = <<>>
    /\ v.tests = <<>>
    /\ v.draws = 0
    /\ v.calls = <<>>
    /\ v.state_after = v.state_before
    /\ v.screened_after = v.screened_before
    /\ v.age_after = v.age_before

\* C5: is_due_for_screening returns False for an agent whose cancer is
\* DETECTED, whatever her status (an unrecognised one included), age, HIV
\* status and history; and a visit of any protocol to a DETECTED agent records
\* no event, runs no test, calls no callback and leaves her screening_state
\* and last_screen_age as they were.
C5_DetectedNeverDue ==
    /\ \A unique_id \in Agents, state \in AnyState :
          cancer_detection[unique_id] = "DETECTED" =>
              is_due_for_screening(SetState(Model, unique_id, state), unique_id)
                  = DueReturn(FALSE)
    /\ \A v \in Visits :
          v.detected => ~v.due /\ v.err = "none" /\ Untouched(v)

\* C5 witness: an agent whose cancer an earlier visit detected is visited
\* again.
C5_Witness ==
    \E v \in Visits :
        /\ v.detected
        /\ v.screened_before
        /\ <<"detect_cancer", v.id>> \in {calls[i] : i \in DOMAIN calls}

\* C9: a visit of any protocol to an agent who is not due, or is due but not
\* compliant, records no event, runs no test, takes no draw, calls no
\* callback and leaves her screening_state and last_screen_age as they were.
C9_GateFrame ==
    \A v \in Visits : ~Screened(v) => Untouched(v)

\* C9 witness: a never-screened agent who is due but not compliant is visited
\* and still has no last_screen_age entry.
C9_Witness ==
    \E v \in Visits :
        /\ v.due /\ ~v.compliant
        /\ ~v.screened_before
        /\ v.id \notin DOMAIN last_screen_age

\* The interval the gate is to use for the agent.
ClaimedInterval(unique_id) ==
    LET by_state == CASE screening_state[unique_id] = "ROUTINE" -> interval_routine
                      [] screening_state[unique_id] = "RE_TEST" -> interval_re_test
                      [] screening_state[unique_id] = "SURVEILLANCE" ->
                            interval_surveillance
    IN  IF unique_id \in hiv_detected /\ interval_hiv < by_state
        THEN interval_hiv ELSE by_state

OutsideWindow == age < age_routine_start \/ age > age_routine_end

\* C6: for an agent of a recognised status who is not DETECTED and not a
\* ROUTINE agent outside the age window, is_due is true exactly when she has
\* no last_screen_age entry or age - last_screen_age >= the interval of her
\* status, replaced by min(that, interval_hiv) if she is HIV-detected.
C6_DueByInterval ==
    last.call = "is_due" =>
        LET unique_id == last.unique_id
        IN  /\ cancer_detection[unique_id] # "DETECTED"
            /\ screening_state[unique_id] \in ScreeningState
            /\ ~(screening_state[unique_id] = "ROUTINE" /\ OutsideWindow)
            => /\ last.err = "none"
               /\ last.value =
                     (\/ unique_id \notin DOMAIN last_screen_age
                      \/ age - last_screen_age[unique_id] >= ClaimedInterval(unique_id))

\* C6 witness: an HIV-detected SURVEILLANCE agent screened one step ago is
\* due (the surveillance interval is shorter than the HIV interval).
C6_Witness ==
    /\ last.call = "is_due"
    /\ last.unique_id \in hiv_detected
    /\ screening_state[last.unique_id] = "SURVEILLANCE"
    /\ cancer_detection[last.unique_id] = "UNDETECTED"
    /\ last.unique_id \in DOMAIN last_screen_age
    /\ age - last_screen_age[last.unique_id] = interval_surveillance
    /\ interval_surveillance < interval_hiv
    /\ last.value

\* C7: is_due is false for a ROUTINE agent when the age is below
\* age_routine_start or above age_routine_end, whatever her history and HIV
\* status; at an age equal to either bound she is inside the window (due if
\* never screened and not DETECTED).
C7_RoutineWindow ==
    last.call = "is_due" /\ screening_state[last.unique_id] = "ROUTINE" =>
        /\ OutsideWindow => last.err = "none" /\ ~last.value
        /\ /\ age \in {age_routine_start, age_routine_end}
           /\ cancer_detection[last.unique_id] # "DETECTED"
           /\ last.unique_id \notin DOMAIN last_screen_age
           => last.value

\* C7 witness: a never-screened HIV-detected ROUTINE agent past the window is
\* not due.
C7_Witness ==
    /\ last.call = "is_due"
    /\ screening_state[last.unique_id] = "ROUTINE"
    /\ cancer_detection[last.unique_id] = "UNDETECTED"
    /\ age > age_routine_end
    /\ last.unique_id \in hiv_detected
    /\ last.unique_id \notin DOMAIN last_screen_age
    /\ ~last.value

\* C8: is_compliant_with_screening returns the agent's compliant_routine_state
\* flag in ROUTINE, her compliant_surveillance_state flag in SURVEILLANCE, and
\* True in RE_TEST and in any other status, whatever the flags.
C8_Compliance ==
    last.call = "is_compliant" =>
        LET unique_id == last.unique_id
        IN  last.value =
               CASE screening_state[unique_id] = "ROUTINE" ->
                      compliant_routine_state[unique_id]
                 [] screening_state[unique_id] = "SURVEILLANCE" ->
                      compliant_surveillance_state[unique_id]
                 [] OTHER -> TRUE

\* C8 witness: a RE_TEST agent with both flags false is compliant.
C8_Witness ==
    /\ last.call = "is_compliant"
    /\ screening_state[last.unique_id] = "RE_TEST"
    /\ ~compliant_routine_state[last.unique_id]
    /\ ~compliant_surveillance_state[last.unique_id]
    /\ last.value

\* C10: the protocol that does not screen answers False to every is_due, and
\* no call of its apply, for one agent or for all, records an event, calls a
\* callback, takes a draw or changes any agent's screening_state,
\* last_screen_age or detection state.
C10_NoScreening ==
    /\ [](last.call = "is_due" => ~last.value /\ last.err = "none")
    /\ [][UNCHANGED <<events, calls, ndraws, screening_state, last_screen_age,
                      cancer_detection>>]_vars

\* C10 witness: apply was called for all agents while agent 1 would pass the
\* gate of the protocols that screen, and nothing has been recorded.
C10_Witness ==
    /\ protocol = "none"
    /\ last.call = "apply"
    /\ last.unique_id = None
    /\ PassesGate(1)
    /\ events = <<>>

\* The events of the surveillance variant and of the screening variant.
SurveillanceEvents ==
    {"SURVEILLANCE_VIA", "SURVEILLANCE_DNA", "SURVEILLANCE_CANCER_INSPECTION"}

ScreeningEvents ==
    {"SCREENING_VIA", "SCREENING_DNA", "SCREENING_CANCER_INSPECTION"}

\* The test an event is an event of.
EventTest(event) ==
    CASE event \in {"SURVEILLANCE_VIA", "SCREENING_VIA"} -> "via"
      [] event \in {"SURVEILLANCE_DNA", "SCREENING_DNA"} -> "dna"
      [] event \in {"SURVEILLANCE_CANCER_INSPECTION", "SCREENING_CANCER_INSPECTION"}
            -> "cancer_inspection"
      [] OTHER -> "unknown"

ConfiguredCost(test) ==
    CASE test = "via" -> via_cost
      [] test = "dna" -> dna_cost
      [] test = "cancer_inspection" -> cancer_inspection_cost
      [] OTHER -> -1

\* C11: every event a visit records, for the primary and for the secondary
\* test, is the surveillance variant of that test exactly when the agent was
\* in SURVEILLANCE at the start of the visit and the screening variant
\* otherwise, and carries the current time, her id and that test's cost.
C11_EventVariant ==
    \A v \in Visits :
        \A i \in DOMAIN v.events :
            LET e == v.events[i]
            IN  /\ e[1] = time
                /\ e[2] = v.id
                /\ v.state_before = "SURVEILLANCE" => e[3] \in SurveillanceEvents
                /\ v.state_before # "SURVEILLANCE" => e[3] \in ScreeningEvents
                /\ i <= Len(v.tests)
                /\ EventTest(e[3]) = v.tests[i].test
                /\ e[4] = ConfiguredCost(v.tests[i].test)

\* C11 witness: an agent in SURVEILLANCE gets a DNA test and then a VIA test,
\* both recorded as surveillance events, at a time after the start.
C11_Witness ==
    \E v \in Visits :
        /\ v.state_before = "SURVEILLANCE"
        /\ time > 0
        /\ v.events = << <<time, v.id, "SURVEILLANCE_DNA", dna_cost>>,
                         <<time, v.id, "SURVEILLANCE_VIA", via_cost>> >>

\* The tests a visit's events are events of, in the order recorded, and the
\* tests the visit performed, in the order performed.
EventTests(v) == [i \in DOMAIN v.events |-> EventTest(v.events[i][3])]

TestsRun(v) == [i \in DOMAIN v.tests |-> v.tests[i].test]

\* The event records the latest call of apply added, visit after visit.
RECURSIVE EventsOfVisits(_)
EventsOfVisits(visits) ==
    IF visits = <<>> THEN <<>>
    ELSE Head(visits).events \o EventsOfVisits(Tail(visits))

\* C12: the events a visit records are the tests it performs, in the order
\* performed, and the log grows by them in that order; under DNA-then-VIA a
\* due and compliant agent with a DNA result positive for SIXTEEN or EIGHTEEN
\* gets the DNA event followed by the cancer-inspection event and ends in
\* SURVEILLANCE, an all-negative DNA result gives the DNA event alone, any
\* other result the DNA event followed by the VIA event.
C12_EventsFollowTests ==
    /\ \A v \in Visits : EventTests(v) = TestsRun(v)
    /\ last.call = "apply" =>
          \E before \in {SubSeq(events, 1, Len(events) - Len(EventsOfVisits(last.visits)))} :
              events = before \o EventsOfVisits(last.visits)
    /\ \A v \in Visits :
          protocol = "dna_then_via" /\ Screened(v) =>
              /\ Len(v.events) >= 1
              /\ EventTests(v)[1] = "dna"
              /\ LET dna == v.tests[1].result
                 IN  /\ dna["SIXTEEN"] = "POSITIVE" \/ dna["EIGHTEEN"] = "POSITIVE" =>
                          /\ EventTests(v) = <<"dna", "cancer_inspection">>
                          /\ v.state_after = "SURVEILLANCE"
                     /\ ~AnyPositive(dna) => EventTests(v) = <<"dna">>
                     /\ Otherwise(dna) => EventTests(v) = <<"dna", "via">>

\* C12 witness: under DNA-then-VIA a ROUTINE agent positive for SIXTEEN gets
\* a DNA event and then a cancer-inspection event, the inspection is
\* NEGATIVE, and she ends in SURVEILLANCE.
C12_Witness ==
    \E v \in Visits :
        /\ protocol = "dna_then_via" /\ Screened(v)
        /\ v.state_before = "ROUTINE"
        /\ Len(v.tests) = 2
        /\ v.tests[1].result["SIXTEEN"] = "POSITIVE"
        /\ v.tests[2].result = "NEGATIVE"
        /\ v.events = << <<time, v.id, "SCREENING_DNA", dna_cost>>,
                         <<time, v.id, "SCREENING_CANCER_INSPECTION",
                           cancer_inspection_cost>> >>
        /\ v.state_after = "SURVEILLANCE"

\* The hidden disease states of an agent.
HiddenStates(a) ==
    <<hpv_strains[a], max_hpv_state[a], cancer[a], cervical_lesion[a],
      a \in hiv_detected, a \in living>>

\* What the screening core keeps about an agent.
ScreeningFields(a) ==
    <<screening_state[a],
      IF a \in DOMAIN last_screen_age THEN last_screen_age[a] ELSE -1>>

\* The agents a callback was called for in the step.
CalledBack(before, after) ==
    {after[i][2] : i \in (Len(before) + 1) .. Len(after)}

\* C13: apart from what the callbacks do, a call of apply only appends to the
\* event log and writes the screening_state and last_screen_age of the agents
\* it screens: the records already in the log stay as they are, no hidden
\* disease state, compliance flag, age or time changes, and a call for one
\* agent changes no field of another agent and records events for her only.
C13_Frame ==
    [][last'.call = "apply" =>
        /\ Len(events') >= Len(events)
        /\ SubSeq(events', 1, Len(events)) = events
        /\ SubSeq(calls', 1, Len(calls)) = calls
        /\ UNCHANGED <<protocol, age, time, compliant_routine_state,
                       compliant_surveillance_state>>
        /\ \A a \in Agents :
              /\ a \notin CalledBack(calls, calls') =>
                    /\ HiddenStates(a)' = HiddenStates(a)
                    /\ cancer_detection'[a] = cancer_detection[a]
              /\ ScreeningFields(a)' # ScreeningFields(a) =>
                    \E i \in DOMAIN last'.visits :
                        last'.visits[i].id = a /\ Screened(last'.visits[i])
        /\ last'.unique_id # None =>
              /\ \A a \in Agents \ {last'.unique_id} :
                    /\ HiddenStates(a)' = HiddenStates(a)
                    /\ cancer_detection'[a] = cancer_detection[a]
                    /\ ScreeningFields(a)' = ScreeningFields(a)
              /\ \A i \in (Len(events) + 1) .. Len(events') :
                    events'[i][2] = last'.unique_id
              /\ CalledBack(calls, calls') \subseteq {last'.unique_id}
    ]_vars

\* C13 witness: a call of apply for one agent has screened her, with a
\* callback, when the log already held a record.
C13_Witness ==
    /\ last.call = "apply" /\ last.unique_id # None
    /\ \E v \in Visits : Screened(v) /\ v.calls # <<>> /\ v.events # <<>>
    /\ Len(events) > Len(EventsOfVisits(last.visits))

\* C14: in one visit the agent's screening_state is written at most once,
\* and exactly once when she is screened and no error occurs; at most one
\* callback is called, for her, at most once; and a callback is called
\* exactly when the visit sets her status to SURVEILLANCE.
C14_OneWritePerVisit ==
    \A v \in Visits :
        /\ Len(v.writes) <= 1
        /\ \A i \in DOMAIN v.writes : v.writes[i][1] = v.id
        /\ Screened(v) /\ v.err = "none" => Len(v.writes) = 1
        /\ ~Screened(v) => v.writes = <<>>
        /\ Len(v.calls) <= 1
        /\ \A i \in DOMAIN v.calls :
              /\ v.calls[i][1] \in {"treat_cin", "detect_cancer"}
              /\ v.calls[i][2] = v.id
        /\ v.calls # <<>> <=> v.writes = << <<v.id, "SURVEILLANCE">> >>

\* C14 witness: an agent already in SURVEILLANCE is screened, treat_cin is
\* called for her and SURVEILLANCE is written once.
C14_Witness ==
    \E v \in Visits :
        /\ Screened(v) /\ v.err = "none"
        /\ v.state_before = "SURVEILLANCE"
        /\ Len(v.tests) = 2
        /\ Treated(v)
        /\ v.writes = << <<v.id, "SURVEILLANCE">> >>

\* The result a gate gives: hit when the gate is passed, NEGATIVE otherwise.
Gate(passed, hit) == IF passed THEN hit ELSE "NEGATIVE"

\* The inputs on which the VIA test is claimed to fail.
ViaErrorInput(true_hpv_state, true_cancer_state) ==
    \/ true_cancer_state = "DEAD"
    \/ true_hpv_state = "CANCER" /\ true_cancer_state = "NORMAL"

\* C15: on every valid input the VIA test returns, for NORMAL, HPV and CIN_1,
\* POSITIVE when the draw exceeds specificity and NEGATIVE otherwise; for
\* CIN_2_3, POSITIVE when the draw is below sensitivity and NEGATIVE
\* otherwise; for CANCER with LOCAL, CANCER when the draw is below sensitivity
\* and NEGATIVE otherwise; for CANCER with REGIONAL or DISTANT, CANCER; and it
\* returns CANCER only when the true HPV state is CANCER.
C15_ViaResult ==
    last.call = "ViaScreeningTest" /\ ~ViaErrorInput(last.args[1], last.args[2]) =>
        LET true_hpv_state == last.args[1]
            true_cancer_state == last.args[2]
        IN  /\ last.err = "none"
            /\ true_hpv_state \in {"NORMAL", "HPV", "CIN_1"} =>
                  last.result = Gate(last.draw > via_specificity, "POSITIVE")
            /\ true_hpv_state = "CIN_2_3" =>
                  last.result = Gate(last.draw < via_sensitivity, "POSITIVE")
            /\ true_hpv_state = "CANCER" /\ true_cancer_state = "LOCAL" =>
                  last.result = Gate(last.draw < via_sensitivity, "CANCER")
            /\ true_hpv_state = "CANCER" /\ true_cancer_state \in {"REGIONAL", "DISTANT"} =>
                  last.result = "CANCER"
            /\ last.result = "CANCER" => true_hpv_state = "CANCER"

\* C15 witness: CIN_2_3 with DISTANT cancer and a draw below sensitivity
\* gives POSITIVE.
C15_Witness ==
    /\ last.call = "ViaScreeningTest"
    /\ last.args = <<"CIN_2_3", "DISTANT">>
    /\ last.draw < via_sensitivity
    /\ last.result = "POSITIVE"

\* C16: on an input of the error set the test raises an invalid-input error
\* and returns nothing: VIA when the cancer state is DEAD, whatever the HPV
\* state, and when the HPV state is CANCER with cancer state NORMAL; cancer
\* inspection when the cancer state is DEAD. No draw is taken before the
\* error.
C16_TestErrors ==
    /\ last.call = "ViaScreeningTest" /\ ViaErrorInput(last.args[1], last.args[2]) =>
          /\ last.err = "ValueError"
          /\ last.result \notin ScreeningTestResult
          /\ last.draws = 0
    /\ last.call = "CancerInspectionScreeningTest" /\ last.args[1] = "DEAD" =>
          /\ last.err = "ValueError"
          /\ last.result \notin ScreeningTestResult
          /\ last.draws = 0

\* C16 witness: VIA has raised on CANCER with a NORMAL cancer state.
C16_Witness ==
    /\ last.call = "ViaScreeningTest"
    /\ last.args = <<"CANCER", "NORMAL">>
    /\ last.err = "ValueError"

\* The agent has none of the strains SIXTEEN, EIGHTEEN and HIGH_RISK.
NoDetectableStrain(true_hpv_states) ==
    /\ true_hpv_states["SIXTEEN"] = "NORMAL"
    /\ true_hpv_states["EIGHTEEN"] = "NORMAL"
    /\ true_hpv_states["HIGH_RISK"] = "NORMAL"

\* C17: DNA test of an agent with SIXTEEN, EIGHTEEN and HIGH_RISK all NORMAL,
\* whatever LOW_RISK is: all four results are NEGATIVE if the draw does not
\* exceed specificity; if it does, HIGH_RISK is POSITIVE and SIXTEEN,
\* EIGHTEEN and LOW_RISK are NEGATIVE.
C17_DnaNoStrain ==
    last.call = "DnaScreeningTest" /\ NoDetectableStrain(last.args[1]) =>
        /\ last.err = "none"
        /\ last.draw <= dna_specificity =>
              \A strain \in HpvStrain : last.result[strain] = "NEGATIVE"
        /\ last.draw > dna_specificity =>
              /\ last.result["HIGH_RISK"] = "POSITIVE"
              /\ last.result["SIXTEEN"] = "NEGATIVE"
              /\ last.result["EIGHTEEN"] = "NEGATIVE"
              /\ last.result["LOW_RISK"] = "NEGATIVE"

\* C17 witness: a false positive for an agent infected with LOW_RISK only.
C17_Witness ==
    /\ last.call = "DnaScreeningTest"
    /\ NoDetectableStrain(last.args[1])
    /\ last.args[1]["LOW_RISK"] = "CIN_1"
    /\ last.draw > dna_specificity
    /\ last.result["HIGH_RISK"] = "POSITIVE"

\* C18: DNA test of an agent with a detectable strain not NORMAL: if the
\* draw is below sensitivity each of SIXTEEN, EIGHTEEN and HIGH_RISK is
\* POSITIVE exactly when its true state is not NORMAL and LOW_RISK is
\* NEGATIVE; if not, all four are NEGATIVE.
C18_DnaStrain ==
    last.call = "DnaScreeningTest" /\ ~NoDetectableStrain(last.args[1]) =>
        /\ last.err = "none"
        /\ last.draw < dna_sensitivity =>
              /\ \A strain \in {"SIXTEEN", "EIGHTEEN", "HIGH_RISK"} :
                    last.result[strain] = "POSITIVE" <=> last.args[1][strain] # "NORMAL"
              /\ \A strain \in {"SIXTEEN", "EIGHTEEN", "HIGH_RISK"} :
                    last.result[strain] \in {"POSITIVE", "NEGATIVE"}
              /\ last.result["LOW_RISK"] = "NEGATIVE"
        /\ ~(last.draw < dna_sensitivity) =>
              \A strain \in HpvStrain : last.result[strain] = "NEGATIVE"

\* C18 witness: an agent with SIXTEEN and LOW_RISK, and HIGH_RISK NORMAL, is
\* found positive for SIXTEEN only.
C18_Witness ==
    /\ last.call = "DnaScreeningTest"
    /\ last.args[1]["SIXTEEN"] = "HPV"
    /\ last.args[1]["LOW_RISK"] = "CIN_2_3"
    /\ last.args[1]["HIGH_RISK"] = "NORMAL"
    /\ last.args[1]["EIGHTEEN"] = "NORMAL"
    /\ last.draw < dna_sensitivity
    /\ last.result["SIXTEEN"] = "POSITIVE"
    /\ last.result["HIGH_RISK"] = "NEGATIVE"

\* C19: the cancer inspection returns, for REGIONAL and DISTANT, CANCER when
\* the draw is below sensitivity and NEGATIVE otherwise; for NORMAL and
\* LOCAL, CANCER when the draw exceeds specificity and NEGATIVE otherwise;
\* and never POSITIVE.
C19_CancerInspection ==
    last.call = "CancerInspectionScreeningTest" =>
        /\ last.args[1] \in {"REGIONAL", "DISTANT"} =>
              /\ last.err = "none"
              /\ last.result = Gate(last.draw < cancer_inspection_sensitivity, "CANCER")
        /\ last.args[1] \in {"NORMAL", "LOCAL"} =>
              /\ last.err = "none"
              /\ last.result = Gate(last.draw > cancer_inspection_specificity, "CANCER")
        /\ last.result # "POSITIVE"

\* C19 witness: a false alarm for LOCAL cancer.
C19_Witness ==
    /\ last.call = "CancerInspectionScreeningTest"
    /\ last.args = <<"LOCAL">>
    /\ last.draw > cancer_inspection_specificity
    /\ last.result = "CANCER"

\* C20: the cytology test returns, for NORMAL, POSITIVE when the draw
\* exceeds specificity and NEGATIVE otherwise; for ASCUS, LSIL, ASCH and
\* HSIL, POSITIVE when the draw is below sensitivity and NEGATIVE otherwise;
\* for any other value it raises an invalid-state error; and it never
\* returns CANCER.
C20_Cytology ==
    last.call = "CytologyScreeningTest" =>
        /\ last.args[1] = "NORMAL" =>
              /\ last.err = "none"
              /\ last.result = Gate(last.draw > cytology_specificity, "POSITIVE")
        /\ last.args[1] \in {"ASCUS", "LSIL", "ASCH", "HSIL"} =>
              /\ last.err = "none"
              /\ last.result = Gate(last.draw < cytology_sensitivity, "POSITIVE")
        /\ last.args[1] \notin {"NORMAL", "ASCUS", "LSIL", "ASCH", "HSIL"} =>
              /\ last.err = "ValueError"
              /\ last.result \notin ScreeningTestResult
        /\ last.result # "CANCER"

\* C20 witness: the cytology test has raised on a value that is no lesion
\* state.
C20_Witness ==
    /\ last.call = "CytologyScreeningTest"
    /\ last.args[1] \notin CervicalLesionState
    /\ last.err = "ValueError"

\* The age is in the band the co-test applies to.
InCoTestBand == cotest_age_min <= age /\ age <= cotest_age_max

\* C21: the co-test raises a range error for every agent whose age is below
\* 30 or above 65, before it runs the cytology or the DNA test and before it
\* takes a draw; at the ages 30 to 65, 30 and 65 included, the age is accepted
\* and the call goes on to the two tests.
C21_CoTestAgeRange ==
    last.call = "CoTestScreeningTest" =>
        /\ ~InCoTestBand => last.err = "ValueError" /\ last.draws = 0
        /\ InCoTestBand => ~(last.err = "TypeError" /\ last.draws = 0)

\* C22: for every agent of an age from 30 to 65 the co-test returns a
\* composite record: its cytology is the cytology test's result on her true
\* lesion state, its hpv the DNA test's result on her true per-strain states,
\* hpv_16_18 is true exactly when that result is POSITIVE for SIXTEEN or
\* EIGHTEEN, hr_hpv exactly when POSITIVE for HIGH_RISK, lr_hpv exactly when
\* POSITIVE for LOW_RISK.
C22_CoTestRecord ==
    last.call = "CoTestScreeningTest" /\ InCoTestBand =>
        /\ last.err = "none"
        /\ \E draw \in Draws :
              last.result.cytology =
                  CytologyScreeningTest_get_result(cervical_lesion[last.unique_id],
                                                   draw).result
        /\ \E draw \in Draws :
              last.result.hpv =
                  DnaScreeningTest_get_result(hpv_strains[last.unique_id], draw).result
        /\ last.result.hpv_16_18 <=>
              \/ last.result.hpv["SIXTEEN"] = "POSITIVE"
              \/ last.result.hpv["EIGHTEEN"] = "POSITIVE"
        /\ last.result.hr_hpv <=> last.result.hpv["HIGH_RISK"] = "POSITIVE"
        /\ last.result.lr_hpv <=> last.result.hpv["LOW_RISK"] = "POSITIVE"

\* C23: the co-test's overall result comes from a draw taken after the
\* cytology and the DNA draw: an agent whose cytology result or some strain's
\* DNA result is POSITIVE gets POSITIVE when that draw is below sensitivity
\* and NEGATIVE otherwise, any other agent NEGATIVE when it is below
\* specificity and POSITIVE otherwise.
C23_CoTestOverall ==
    last.call = "CoTestScreeningTest" /\ InCoTestBand =>
        /\ last.err = "none"
        /\ last.draws = 3
        /\ LET true_positive ==
                  \/ last.result.cytology = "POSITIVE"
                  \/ \E strain \in HpvStrain : last.result.hpv[strain] = "POSITIVE"
           IN  \E draw \in Draws :
                  last.result.cotest =
                      IF true_positive
                      THEN Gate(draw < cotest_sensitivity, "POSITIVE")
                      ELSE IF draw < cotest_specificity THEN "NEGATIVE" ELSE "POSITIVE"

\* C24: cytology triage maps a NEGATIVE result to ROUTINE for every lesion
\* state, a POSITIVE result to RE_TEST for ASCUS and to COLPOSCOPY for LSIL,
\* ASCH and HSIL, and what it returns is a member of ScreeningState.
C24_TriageCytology ==
    last.call = "triage_cytology_results" =>
        LET lesion == cervical_lesion[last.unique_id]
            result == last.args[2]
        IN  /\ result = "NEGATIVE" => last.err = "none" /\ last.result = "ROUTINE"
            /\ result = "POSITIVE" /\ lesion = "ASCUS" =>
                  last.err = "none" /\ last.result = "RE_TEST"
            /\ result = "POSITIVE" /\ lesion \in {"LSIL", "ASCH", "HSIL"} =>
                  /\ last.err = "none"
                  /\ last.result = "COLPOSCOPY"
                  /\ last.result \in ScreeningState

\* C25: DNA triage maps a result NEGATIVE for all strains to ROUTINE, a
\* result POSITIVE for SIXTEEN or EIGHTEEN to COLPOSCOPY whatever HIGH_RISK
\* and LOW_RISK are, and every other result to RE_TEST.
C25_TriageDna ==
    last.call = "triage_dna_results" =>
        LET result == last.args[2]
        IN  /\ last.err = "none"
            /\ last.result =
                  IF ~AnyPositive(result) THEN "ROUTINE"
                  ELSE IF result["SIXTEEN"] = "POSITIVE" \/ result["EIGHTEEN"] = "POSITIVE"
                  THEN "COLPOSCOPY"
                  ELSE "RE_TEST"

\* C26: co-test triage maps co-test NEGATIVE to ROUTINE; co-test POSITIVE
\* with hr_hpv and cytology NEGATIVE to COLPOSCOPY if hpv_16_18 and to
\* RE_TEST if not; with hr_hpv and cytology POSITIVE to COLPOSCOPY; without
\* hr_hpv and with cytology POSITIVE to COLPOSCOPY for ASCH, LSIL and HSIL
\* and to RE_TEST for ASCUS.
C26_TriageCotest ==
    last.call = "triage_cotest_results" =>
        LET results == last.args[2]
            lesion == cervical_lesion[last.unique_id]
            positive == results.cotest = "POSITIVE"
            Maps(status) == last.err = "none" /\ last.result = status
        IN  /\ results.cotest = "NEGATIVE" => Maps("ROUTINE")
            /\ positive /\ results.hr_hpv /\ results.cytology = "NEGATIVE" =>
                  Maps(IF results.hpv_16_18 THEN "COLPOSCOPY" ELSE "RE_TEST")
            /\ positive /\ results.hr_hpv /\ results.cytology = "POSITIVE" =>
                  Maps("COLPOSCOPY")
            /\ positive /\ ~results.hr_hpv /\ results.cytology = "POSITIVE"
                  /\ lesion \in {"ASCH", "LSIL", "HSIL"} => Maps("COLPOSCOPY")
            /\ positive /\ ~results.hr_hpv /\ results.cytology = "POSITIVE"
                  /\ lesion = "ASCUS" => Maps("RE_TEST")

\* The calls of the three triage rules.
TriageRules ==
    {"triage_cytology_results", "triage_dna_results", "triage_cotest_results"}

\* C27: the triage rules are total and free of side effects: every call
\* returns a screening status and does not fail, a combination no rule names
\* (cytology POSITIVE with lesion NORMAL; co-test POSITIVE without hr_hpv and
\* with cytology NEGATIVE) returns RE_TEST, and no call records an event,
\* calls a callback or changes a field of an agent.
C27_TriageTotal ==
    last.call \in TriageRules =>
        /\ last.err = "none"
        /\ last.result \in AnyState
        /\ last.call = "triage_cytology_results" /\ last.args[2] = "POSITIVE"
              /\ cervical_lesion[last.unique_id] = "NORMAL" => last.result = "RE_TEST"
        /\ last.call = "triage_cotest_results" /\ last.args[2].cotest = "POSITIVE"
              /\ ~last.args[2].hr_hpv /\ last.args[2].cytology = "NEGATIVE" =>
                  last.result = "RE_TEST"
        /\ events = <<>> /\ calls = <<>> /\ ndraws = 0
        /\ screening_state = <<"ROUTINE", "ROUTINE">>
        /\ last_screen_age = <<>>

\* C28 as stated: is_due called for an agent whose screening status is not one
\* of ROUTINE, RE_TEST, SURVEILLANCE fails with a fatal error and returns no
\* boolean.
C28_UnknownStatusFatal_AsStated ==
    last.call = "is_due" /\ screening_state[last.unique_id] \notin ScreeningState =>
        last.err = "NotImplementedError"

\* C28: is_due called for an agent whose cancer is not DETECTED and whose
\* screening status is not one of ROUTINE, RE_TEST, SURVEILLANCE fails with
\* NotImplementedError and returns no boolean; for an agent whose cancer is
\* DETECTED it returns false whatever her status is.
C28_UnknownStatusFatal ==
    last.call = "is_due" /\ screening_state[last.unique_id] \notin ScreeningState =>
        IF cancer_detection[last.unique_id] = "DETECTED"
        THEN last.err = "none" /\ last.value = FALSE
        ELSE last.err = "NotImplementedError"

\* C28 witness: is_due has failed for an undetected agent of unknown status
\* who was never screened.
C28_Witness ==
    /\ last.call = "is_due"
    /\ screening_state[last.unique_id] \notin ScreeningState
    /\ cancer_detection[last.unique_id] = "UNDETECTED"
    /\ last.unique_id \notin DOMAIN last_screen_age
    /\ last.err = "NotImplementedError"

\* The values a branch point handles, by the test whose result it reads.
Handled(test) ==
    CASE test = "cancer_inspection" -> {"NEGATIVE", "CANCER"}
      [] test = "via" -> {"NEGATIVE", "POSITIVE", "CANCER"}

\* The i-th test of the visit returned a value its branch point does not
\* handle.
UnexpectedAt(v, i) ==
    /\ v.tests[i].test \in {"cancer_inspection", "via"}
    /\ v.tests[i].result # "ValueError"
    /\ v.tests[i].result \notin Handled(v.tests[i].test)

\* C29: when the cancer inspection returns anything other than NEGATIVE or
\* CANCER, or VIA anything other than NEGATIVE, POSITIVE or CANCER, the visit
\* ends with NotImplementedError: no screening status is set, no callback is
\* called, no further test is run and apply ends with that error.
C29_UnexpectedResultFatal ==
    last.call = "apply" =>
        \A n \in DOMAIN last.visits : \A i \in DOMAIN last.visits[n].tests :
            UnexpectedAt(last.visits[n], i) =>
                /\ last.visits[n].err = "NotImplementedError"
                /\ last.err = "NotImplementedError"
                /\ last.visits[n].writes = <<>>
                /\ last.visits[n].calls = <<>>
                /\ last.visits[n].state_after = last.visits[n].state_before
                /\ i = Len(last.visits[n].tests)
                /\ n = Len(last.visits)

\* C29 witness: a cancer inspection that follows a DNA test returned POSITIVE
\* and the call ended with NotImplementedError.
C29_Witness ==
    /\ last.call = "apply"
    /\ last.err = "NotImplementedError"
    /\ \E v \in Visits :
          /\ Len(v.tests) = 2
          /\ v.tests[2] = [test |-> "cancer_inspection", result |-> "POSITIVE"]

\* The i-th test of the visit raised. The DNA test returns a dictionary
\* whatever the states it is given.
TestRaisedAt(v, i) ==
    /\ v.tests[i].test \in {"cancer_inspection", "via"}
    /\ v.tests[i].result = "ValueError"

\* C30: when a test model raises during apply, apply ends with that error at
\* the visit of that agent: her screening_state is what it was before the
\* visit, it was not written, and no callback was called for her.
C30_TestErrorReachesCaller ==
    last.call = "apply" =>
        \A n \in DOMAIN last.visits : \A i \in DOMAIN last.visits[n].tests :
            TestRaisedAt(last.visits[n], i) =>
                /\ last.err = "ValueError"
                /\ last.visits[n].err = "ValueError"
                /\ n = Len(last.visits)
                /\ i = Len(last.visits[n].tests)
                /\ last.visits[n].writes = <<>>
                /\ last.visits[n].calls = <<>>
                /\ last.visits[n].state_after = last.visits[n].state_before
                /\ screening_state[last.visits[n].id] = last.visits[n].state_before

\* C30 witness: apply for a dead agent ran the cancer inspection after a
\* positive DNA test, the inspection raised and the call ended with the error.
C30_Witness ==
    /\ last.call = "apply"
    /\ last.err = "ValueError"
    /\ last.unique_id \in Agents
    /\ cancer[last.unique_id] = "DEAD"
    /\ \E v \in Visits :
          /\ v.id = last.unique_id
          /\ Len(v.tests) = 2
          /\ v.tests[2] = [test |-> "cancer_inspection", result |-> "ValueError"]
          /\ v.state_after = "ROUTINE"

\* C31: is_due is a query. A call leaves every agent field, the event log,
\* the callbacks made, the draws taken and the clock as they were; and a call
\* that directly follows a call for the same agent gives the same answer.
C31_IsDuePure ==
    [][last'.call = "is_due" =>
          /\ UNCHANGED <<protocol, age, time, hidden, cancer_detection,
                         screening_state, last_screen_age, events, calls, ndraws>>
          /\ last'.draws = 0
          /\ last.call = "is_due" /\ last.unique_id = last'.unique_id =>
                last'.value = last.value /\ last'.err = last.err]_vars

\* C31 witness: an agent screened before (by an apply at an earlier age) is
\* asked about and is due.
C31_Witness ==
    /\ last.call = "is_due"
    /\ last.value
    /\ last.unique_id \in DOMAIN last_screen_age
    /\ last_screen_age[last.unique_id] < age
    /\ events # <<>>

\* apply can be called in this state (the guard of Apply).
Callable == Len(events) < MaxEvents

\* The random source that returns the first n draws of ds and then d forever.
Replaced(ds, n, d) == [k \in DOMAIN ds |-> IF k <= n THEN ds[k] ELSE d]

Orders(S) ==
    {o \in [1 .. Cardinality(S) -> S] : \A a \in S : \E i \in DOMAIN o : o[i] = a}

\* What a call left for agent a: her status, her last screening age, the
\* callbacks made for her and her events.
Outcome(r, a) ==
    [screening_state |-> r.screening_state[a],
     last_screen_age |-> IF a \in DOMAIN r.last_screen_age
                         THEN r.last_screen_age[a] ELSE -1,
     calls           |-> SelectSeq(r.calls, LAMBDA c : c[2] = a),
     events          |-> SelectSeq(r.events, LAMBDA ev : ev[2] = a)]

\* The agents a call for all agents visited, in the order of the visits.
Visited == [n \in DOMAIN last.visits |-> last.visits[n].id]

\* C33 as stated: a call for all agents visits living agents only, and with
\* the same random source every order of the living agents leaves every
\* agent with the same status, last screening age, callbacks and events.
C33_OrderIndependent_AsStated ==
    /\ last.call = "apply" /\ last.unique_id = None =>
          \A n \in DOMAIN Visited : Visited[n] \in living
    /\ Callable =>
       \A ds \in DrawSeqs(None) : \A o1, o2 \in Orders(living) : \A a \in living :
          Outcome(apply_loop(protocol, Model, o1, ds), a)
              = Outcome(apply_loop(protocol, Model, o2, ds), a)

\* The draws the random source returns after the first n.
After(ds, n) == [k \in 1 .. Len(ds) - n |-> ds[k + n]]

\* The draws consumed before the n-th visit of the run r.
RECURSIVE DrawsBefore(_, _)
DrawsBefore(r, n) ==
    IF n <= 1 THEN 0 ELSE DrawsBefore(r, n - 1) + r.visits[n - 1].draws

\* C33: a call for all agents visits living agents only, each once, in the
\* order of their ids, all of them unless a visit raises. In whatever order
\* a call the run can make visits the living agents, every agent visited ends
\* with the status, last screening age, callbacks and events that a call for
\* her alone leaves when its random source returns the draws her visit
\* consumed; the order decides only which draws those are and, when a visit
\* raises, which agents are visited before the error.
C33_OrderIndependent ==
    /\ last.call = "apply" /\ last.unique_id = None =>
          /\ \A n \in DOMAIN Visited : Visited[n] = Ascending(living)[n]
          /\ Len(Visited) <= Cardinality(living)
          /\ last.err = "none" => Visited = Ascending(living)
    /\ Callable =>
       \A ds \in DrawSeqs(None) : \A o \in Orders(living) :
          LET r == apply_loop(protocol, Model, o, ds)
          IN  /\ \A n \in DOMAIN r.visits :
                    /\ r.visits[n].id = o[n]
                    /\ Outcome(r, o[n])
                          = Outcome(apply_loop(protocol, Model, <<o[n]>>,
                                               After(ds, DrawsBefore(r, n))), o[n])
              /\ \A n \in DOMAIN o :
                    n > Len(r.visits) => Outcome(r, o[n]) = Outcome(Model, o[n])
              /\ r.err = "none" => Len(r.visits) = Len(o)

\* C33 witness: a call for all agents visited agent 1 and then agent 2 and
\* screened both.
C33_Witness ==
    /\ last.call = "apply"
    /\ last.unique_id = None
    /\ last.err = "none"
    /\ Visited = <<1, 2>>
    /\ \A n \in DOMAIN last.visits : last.visits[n].tests # <<>>

\* A call of one of the four test models on its own.
TestModels ==
    {"ViaScreeningTest", "DnaScreeningTest", "CytologyScreeningTest",
     "CancerInspectionScreeningTest"}

\* VIA is given HPV state CANCER with cancer state REGIONAL or DISTANT.
ViaAdvancedCancer ==
    /\ last.call = "ViaScreeningTest"
    /\ last.args[1] = "CANCER"
    /\ last.args[2] \in {"REGIONAL", "DISTANT"}

\* C34 as stated: every call of a test model that returns a result takes
\* exactly one draw.
C34_OneDrawPerTest_AsStated ==
    last.call \in TestModels /\ last.err = "none" => last.draws = 1

\* C34: a call of a test model that returns a result takes exactly one draw,
\* except VIA given HPV state CANCER with cancer state REGIONAL or DISTANT,
\* which returns CANCER and takes none; a call that raises takes none.
C34_OneDrawPerTest ==
    last.call \in TestModels =>
        /\ last.err = "none" /\ ~ViaAdvancedCancer => last.draws = 1
        /\ last.err = "none" /\ ViaAdvancedCancer =>
              last.draws = 0 /\ last.result = "CANCER"
        /\ last.err # "none" => last.draws = 0
        /\ ndraws >= last.draws

\* C34 witness: VIA returned CANCER for a REGIONAL cancer without a draw.
C34_Witness ==
    /\ ViaAdvancedCancer
    /\ last.args[2] = "REGIONAL"
    /\ last.err = "none"
    /\ last.result = "CANCER"
    /\ last.draws = 0
    /\ ndraws = 0

\* The protocols that have no RE_TEST branch.
NoReTestProtocols == {"via", "dna_then_treatment"}

\* C35: under each of the five protocols, agents that start in ROUTINE,
\* RE_TEST or SURVEILLANCE stay in one of these three statuses, and every
\* status a visit writes is one of them. VIA-only and DNA-then-treatment
\* write no RE_TEST, so agent 2, who starts in ROUTINE, is never in RE_TEST
\* under them.
C35_StatusClosed ==
    /\ \A a \in Agents : screening_state[a] \in ScreeningState
    /\ \A v \in Visits : \A i \in DOMAIN v.writes :
          /\ v.writes[i][2] \in ScreeningState
          /\ protocol \in NoReTestProtocols => v.writes[i][2] # "RE_TEST"
    /\ protocol \in NoReTestProtocols => screening_state[2] # "RE_TEST"
    /\ protocol = "none" => screening_state[2] = "ROUTINE"

\* C35 witness: under DNA-then-treatment agent 2 was screened and left in
\* SURVEILLANCE, with agent 1 in a status other than ROUTINE.
C35_Witness ==
    /\ protocol = "dna_then_treatment"
    /\ last.call = "apply"
    /\ \E v \in Visits : v.id = 2 /\ v.writes = << <<2, "SURVEILLANCE">> >>
    /\ screening_state[2] = "SURVEILLANCE"
    /\ screening_state[1] # "ROUTINE"

\* The visits that ran the DNA test, and the result it gave.
DnaVisits == {v \in Visits : v.tests # <<>> /\ v.tests[1].test = "dna"}

DnaResult(v) == v.tests[1].result

\* Only the other high-risk strains are positive.
HighRiskOnly(result) ==
    /\ result["HIGH_RISK"] = "POSITIVE"
    /\ result["SIXTEEN"] = "NEGATIVE"
    /\ result["EIGHTEEN"] = "NEGATIVE"

\* C36: the DNA test of a visit reports NEGATIVE or POSITIVE for each strain,
\* NEGATIVE for LOW_RISK, and is all NEGATIVE or POSITIVE for one of SIXTEEN,
\* EIGHTEEN, HIGH_RISK. DNA-then-VIA runs the VIA test, and DNA-then-triage
\* writes RE_TEST, exactly when the DNA result is POSITIVE for HIGH_RISK and
\* NEGATIVE for SIXTEEN and EIGHTEEN.
C36_DnaOtherwiseBranch ==
    \A v \in DnaVisits :
        /\ \A strain \in HpvStrain : DnaResult(v)[strain] \in {"NEGATIVE", "POSITIVE"}
        /\ DnaResult(v)["LOW_RISK"] = "NEGATIVE"
        /\ \/ DnaResult(v) = AllNegative
           \/ \E strain \in detectable : DnaResult(v)[strain] = "POSITIVE"
        /\ protocol = "dna_then_via" =>
              (HighRiskOnly(DnaResult(v))
                  <=> Len(v.tests) = 2 /\ v.tests[2].test = "via")
        /\ protocol = "dna_then_triage" =>
              (HighRiskOnly(DnaResult(v))
                  <=> Len(v.tests) = 1 /\ v.writes = << <<v.id, "RE_TEST">> >>)
        /\ protocol = "dna_then_treatment" => "via" \notin {v.tests[i].test : i \in DOMAIN v.tests}

\* C36 witness: an agent with a low-risk lesion only tested positive (a
\* false positive, reported for HIGH_RISK) and DNA-then-triage sent her to
\* RE_TEST.
C36_Witness ==
    /\ protocol = "dna_then_triage"
    /\ \E v \in DnaVisits :
          /\ hpv_strains[v.id]["LOW_RISK"] # "NORMAL"
          /\ hpv_strains[v.id]["HIGH_RISK"] = "NORMAL"
          /\ HighRiskOnly(DnaResult(v))
          /\ v.state_after = "RE_TEST"

\* The interval of a status, shortened for an HIV-detected agent.
IntervalOf(state, unique_id) ==
    LET interval == CASE state = "ROUTINE" -> interval_routine
                      [] state = "RE_TEST" -> interval_re_test
                      [] state = "SURVEILLANCE" -> interval_surveillance
    IN  IF unique_id \in hiv_detected THEN Min(interval, interval_hiv) ELSE interval

\* The visit screened the agent: it noted the age or recorded an event.
VisitScreened(v) == v.events # <<>> \/ v.tests # <<>> \/ v.age_after # v.age_before

\* C37: a visit that screens an agent who was screened before comes at least
\* the interval of her status (the smaller of it and interval_hiv when she is
\* HIV-detected) after her last screening; and a visit at the age of her last
\* screening records no event, runs no test, writes no status and makes no
\* callback.
C37_MinimumSpacing ==
    \A v \in Visits :
        /\ VisitScreened(v) /\ v.screened_before =>
              /\ v.state_before \in ScreeningState
              /\ age - v.age_before >= IntervalOf(v.state_before, v.id)
              /\ age - v.age_before >= 1
        /\ v.screened_before /\ v.age_before = age =>
              /\ ~VisitScreened(v)
              /\ v.writes = <<>>
              /\ v.calls = <<>>
              /\ v.state_after = v.state_before

\* C37 witness: an agent in SURVEILLANCE and not HIV-detected is screened
\* again one step after her last screening.
C37_Witness ==
    \E v \in Visits :
        /\ v.screened_before
        /\ v.tests # <<>>
        /\ v.state_before = "SURVEILLANCE"
        /\ v.id \notin hiv_detected
        /\ age - v.age_before = interval_surveillance

\* C38: a visit that runs a test has noted the current age as the agent's
\* last screening age and has recorded one event for each test it ran, the
\* failing one included. When a test raises, the age and the events stay: the
\* agent has a last_screen_age of the current age and the log ends with the
\* visit's events; the visit is the last of the call, and a call for all
\* agents has visited the living agents up to her and none after.
C38_WritesBeforeTest ==
    \A n \in DOMAIN last.visits :
        LET v == last.visits[n]
        IN  /\ v.tests # <<>> =>
                  /\ v.age_after = age
                  /\ EventTests(v) = TestsRun(v)
            /\ v.err = "ValueError" =>
                  /\ last.err = "ValueError"
                  /\ v.tests # <<>>
                  /\ v.tests[Len(v.tests)].result = "ValueError"
                  /\ v.id \in DOMAIN last_screen_age
                  /\ last_screen_age[v.id] = age
                  /\ Len(events) >= Len(v.events)
                  /\ SubSeq(events, Len(events) - Len(v.events) + 1, Len(events)) = v.events
                  /\ \A i \in DOMAIN v.events : v.events[i][2] = v.id
                  /\ n = Len(last.visits)
                  /\ last.unique_id = None => Visited = SubSeq(Ascending(living), 1, n)

\* C38 witness: DNA-then-VIA applied to two living agents; the VIA test of
\* agent 1 raised after her DNA and VIA events were recorded, and agent 2 was
\* not visited.
C38_Witness ==
    /\ protocol = "dna_then_via"
    /\ last.call = "apply"
    /\ last.unique_id = None
    /\ living = {1, 2}
    /\ last.err = "ValueError"
    /\ Visited = <<1>>
    /\ Len(last.visits[1].events) = 2
    /\ last_screen_age = DictPut(<<>>, 1, age)

\* The events of the log that are agent a's.
EventsOf(a) == SelectSeq(events, LAMBDA ev : ev[2] = a)

\* The cohort's age when the clock showed t.
AgeAt(t) == initial_age + t

\* C39: an agent has a last_screen_age entry exactly when the log holds an
\* event of hers, and the entry is the age at which her latest event was
\* recorded; a visit that screens her adds one or two events, all hers and
\* all stamped with the current time, and a visit that does not adds none.
C39_ScreenAgeIffEvent ==
    /\ \A a \in Agents :
          /\ a \in DOMAIN last_screen_age <=> EventsOf(a) # <<>>
          /\ a \in DOMAIN last_screen_age =>
                last_screen_age[a] = AgeAt(EventsOf(a)[Len(EventsOf(a))][1])
    /\ \A v \in Visits :
          /\ v.tests # <<>> =>
                /\ Len(v.events) \in {1, 2}
                /\ \A i \in DOMAIN v.events :
                      v.events[i][2] = v.id /\ v.events[i][1] = time
                /\ v.age_after = age
          /\ v.tests = <<>> => v.events = <<>> /\ v.age_after = v.age_before

\* C39 witness: an agent screened at two ages has two events with different
\* time stamps, and her last_screen_age is the age of the later one.
C39_Witness ==
    \E a \in Agents :
        /\ Len(EventsOf(a)) = 2
        /\ EventsOf(a)[1][1] < EventsOf(a)[2][1]
        /\ a \in DOMAIN last_screen_age
        /\ last_screen_age[a] = AgeAt(EventsOf(a)[2][1])
        /\ last_screen_age[a] = age

\* What a triage rule gave, as a call notes it.
Gave(r) == last.err = r.error /\ last.result = r.value

\* C40: triage_results looks for the keys cotest, cytology, hpv in that
\* order: with cotest it gives what co-test triage gives for the record, with
\* cytology and no cotest what cytology triage gives for the cytology result,
\* with hpv alone it returns the status DNA triage maps the DNA result to
\* (ROUTINE when all NEGATIVE, COLPOSCOPY when SIXTEEN or EIGHTEEN is
\* POSITIVE, RE_TEST otherwise), and with none of the three it raises
\* ValueError.
C40_TriageDispatch ==
    last.call = "triage_results" =>
        LET unique_id == last.args[1]
            results == last.args[2]
        IN  /\ "cotest" \in results.keys =>
                  Gave(triage_cotest_results(unique_id, results))
            /\ "cotest" \notin results.keys /\ "cytology" \in results.keys =>
                  Gave(triage_cytology_results(unique_id, results.cytology))
            /\ results.keys = {"hpv"} =>
                  /\ last.err = "none"
                  /\ last.result =
                        IF ~AnyPositive(results.hpv) THEN "ROUTINE"
                        ELSE IF results.hpv["SIXTEEN"] = "POSITIVE"
                                \/ results.hpv["EIGHTEEN"] = "POSITIVE"
                        THEN "COLPOSCOPY"
                        ELSE "RE_TEST"
            /\ results.keys \cap {"cotest", "cytology", "hpv"} = {} =>
                  last.err = "ValueError"

====
